---- MODULE Spec2Model ----
(***************************************************************************)
(* Orchestration core of marketerx-backend: ChatService.processMessage,    *)
(* Tier1Orchestrator.run (agentic loop and streaming decoder),             *)
(* Tier1Orchestrator.processToolCalls, executeTool and its handlers, and   *)
(* the SSEStream the events are written to.                                *)
(*                                                                         *)
(* Strings are sequences of one-character strings, so that concatenation,  *)
(* truncation and parsing are computed and not assumed.                    *)
(***************************************************************************)
EXTENDS Integers, Sequences, FiniteSets, TLC

(***************************************************************************)
(* Bounds of the environment (the provider and the tools), not of the code *)
(***************************************************************************)
MaxDecEvents == 5     \* increments of one free-form model turn
MaxDecSegments == 2   \* content blocks of one free-form model turn
MaxChunks == 1        \* text deltas of one Tier 2 generation
MaxTurnTools == 2     \* tool_use blocks of the first scripted model turn
MaxClock == 1         \* seconds that pass while the cache is observed
MaxCacheOps == 3      \* cache operations of one observation
MaxRounds == 2        \* getOrSet calls of one concurrent caller
MaxRequests == 2      \* chat requests that run concurrently
MaxReads == 3         \* calls of the read handlers in one observation
MaxRules == 2         \* compliance rules passed to validate_content
MaxChanges == 2       \* changes of the canon of one profile

(***************************************************************************)
(* Program constants                                                       *)
(***************************************************************************)
maxLoops == 5
DefaultLayerTTL == 300   \* getTTL: the http and prompt layers

Chars == {"a", "b"}
JChars == {"{", "}", "1"}
RegisteredTools == {"fetch_canon", "knowledge_search", "web_search",
                    "content_execution", "validate_content"}
UnknownTool == "frobnicate"
StopReasons == {"end_turn", "tool_use", "max_tokens"}
UserMessage == <<"u">>
Fallback == <<"C", "g", "s">>    \* 'Content generated successfully.'

(***************************************************************************)
(* JSON.parse on the fragment alphabet: "{}" is the empty object, a run of *)
(* digits is a number, everything else (the empty text included) fails.    *)
(***************************************************************************)
NoInput == [k |-> "none", n |-> 0]
EmptyObject == [k |-> "object", n |-> 0]

IsDigits(s) == Len(s) > 0 /\ \A i \in 1..Len(s) : s[i] = "1"

JSONValid(s) == s = <<"{", "}">> \/ IsDigits(s)

JSONParse(s) == IF s = <<"{", "}">> THEN EmptyObject ELSE [k |-> "number", n |-> Len(s)]

\* currentToolUse.inputJson || '{}'
OrEmptyObject(s) == IF s = <<>> THEN <<"{", "}">> ELSE s

(***************************************************************************)
(* Provider increments                                                     *)
(***************************************************************************)
Ev(type, index, kind, id, name, data) ==
  [type |-> type, index |-> index, kind |-> kind, id |-> id, name |-> name, data |-> data]

StartText(i) == Ev("content_block_start", i, "text", 0, "", <<>>)
StartTool(i, id, name) == Ev("content_block_start", i, "tool_use", id, name, <<>>)
TextDelta(i, c) == Ev("content_block_delta", i, "text_delta", 0, "", <<c>>)
JsonDelta(i, c) == Ev("content_block_delta", i, "input_json_delta", 0, "", <<c>>)
BlockStop(i) == Ev("content_block_stop", i, "", 0, "", <<>>)
MessageDelta(r) == Ev("message_delta", 0, r, 0, "", <<>>)

(***************************************************************************)
(* Content blocks, turns, tool results, SSE events                         *)
(***************************************************************************)
Block(type, text, id, name, input, output, isError) ==
  [type |-> type, text |-> text, id |-> id, name |-> name, input |-> input,
   output |-> output, is_error |-> isError]

TextBlock(t) == Block("text", t, 0, "", NoInput, "", FALSE)
ToolUseBlock(id, name, input) == Block("tool_use", <<>>, id, name, input, "", FALSE)
ToolResultBlock(id, output, isError) == Block("tool_result", <<>>, id, "", NoInput, output, isError)

StringTurn(role, text) == [role |-> role, isString |-> TRUE, text |-> text, blocks |-> <<>>]
BlocksTurn(role, blocks) == [role |-> role, isString |-> FALSE, text |-> <<>>, blocks |-> blocks]

NoToolUse == [present |-> FALSE, id |-> 0, name |-> "", input |-> NoInput, inputJson |-> <<>>]

SSE(event, type, content) == [event |-> event, type |-> type, content |-> content]
Thinking(type) == SSE("thinking", type, <<>>)
Analysis(type) == SSE("analysis", type, <<>>)
Artifact(type, content) == SSE("artifact", type, content)
Message(content, messageId) == SSE("message", messageId, content)
ErrorEvent(code) == SSE("error", code, <<>>)
Done == SSE("done", "", <<>>)
Close == SSE("close", "", <<>>)

VARIABLES
  phase,                \* position of the request in processMessage / run
  outcome,              \* "running", "completed" or "failed"
  mode,                 \* environment: "scripted" or "free" provider
  script,               \* increments the scripted provider still has to send
  incoming,             \* increments received in the current model turn
  loopCount,
  continueLoop,
  streamingStarted,
  fullResponse,
  toolUseBlocks,
  contentBlocks,
  currentToolUse,
  stopReason,
  toolIdx,              \* position of the for loop of processToolCalls
  conversationContext,  \* state.conversationContext
  toolResults,          \* state.toolResults
  response,             \* state.response
  stateError,           \* state.error
  calls,                \* executeTool invocations, in call order
  envs,                 \* what the collaborators did during each invocation
  artifacts,            \* artifact records created in the record store
  sse,                  \* what was written to reply.raw, in order
  store,                \* the Redis keyspace: key -> entry
  now,                  \* the clock of the Redis server, in seconds
  lastOp,               \* the last cache operation and what it returned
  connected,            \* the subscriber's connection is open
  inFlight,             \* caller -> its getOrSet call and where it is suspended
  lastWrite,            \* key -> the value of the last setex on it
  rows,                 \* marketerx_messages, in insertion order
  creating,             \* request -> its MessageRepository.create call
  reads,                \* the calls of the read handlers, in call order
  canonDb,              \* profile -> version of its canon items in the record store
  canonCalls,           \* the canon read and the canon change in flight
  lastCall              \* the last getOrSet on a failing backend, as it went

decoderVars == <<incoming, streamingStarted, fullResponse, toolUseBlocks,
                 contentBlocks, currentToolUse, stopReason>>
stateVars == <<conversationContext, toolResults, response, stateError>>
cacheVars == <<store, now, lastOp>>
runVars == <<phase, outcome, mode, script, loopCount, continueLoop, toolIdx,
             decoderVars, stateVars, calls, envs, artifacts, sse, connected>>
concurrentVars == <<inFlight, lastWrite, rows, creating>>
serviceVars == <<reads, canonDb, canonCalls, lastCall>>
vars == <<runVars, cacheVars, concurrentVars, serviceVars>>

(***************************************************************************)
(* SSEStream.send: two writes on reply.raw, in call order                  *)
(***************************************************************************)
send(log, event) == Append(log, event)

sendAll(log, events) == log \o events

(***************************************************************************)
(* Tier1Orchestrator.run: the body of `for await (const event of response)`*)
(***************************************************************************)
SetLast(blocks, b) == [blocks EXCEPT ![Len(blocks)] = b]

LastIs(blocks, type) == Len(blocks) > 0 /\ blocks[Len(blocks)].type = type

OnContentBlockStart(ev) ==
  /\ ev.type = "content_block_start"
  /\ IF ev.kind = "text"
       THEN /\ sse' = IF streamingStarted THEN sse
                      ELSE send(sse, Message(<<>>, "streaming-start"))
            /\ streamingStarted' = TRUE
            /\ contentBlocks' = Append(contentBlocks, TextBlock(<<>>))
            /\ UNCHANGED currentToolUse
       ELSE /\ sse' = send(sse, Thinking("preparing"))
            /\ currentToolUse' = [present |-> TRUE, id |-> ev.id, name |-> ev.name,
                                  input |-> EmptyObject, inputJson |-> <<>>]
            /\ contentBlocks' = Append(contentBlocks, ToolUseBlock(ev.id, ev.name, NoInput))
            /\ UNCHANGED streamingStarted
  /\ UNCHANGED <<fullResponse, toolUseBlocks, stopReason>>

\* the delta branch that streams a chunk only when it went into a text block
OnContentBlockDeltaQuiet(ev) ==
  /\ ev.type = "content_block_delta"
  /\ IF ev.kind = "text_delta"
       THEN /\ fullResponse' = fullResponse \o ev.data
            /\ contentBlocks' =
                 IF LastIs(contentBlocks, "text")
                   THEN SetLast(contentBlocks,
                          TextBlock(contentBlocks[Len(contentBlocks)].text \o ev.data))
                   ELSE contentBlocks
            /\ sse' = IF LastIs(contentBlocks, "text")
                        THEN send(sse, Message(ev.data, "streaming")) ELSE sse
            /\ UNCHANGED currentToolUse
       ELSE /\ currentToolUse' =
                 IF currentToolUse.present
                   THEN [currentToolUse EXCEPT !.inputJson = @ \o ev.data]
                   ELSE currentToolUse
            /\ UNCHANGED <<fullResponse, contentBlocks, sse>>
  /\ UNCHANGED <<streamingStarted, toolUseBlocks, stopReason>>

OnContentBlockDelta(ev) ==
  /\ ev.type = "content_block_delta"
  /\ IF ev.kind = "text_delta"
       THEN /\ fullResponse' = fullResponse \o ev.data
            /\ contentBlocks' =
                 IF LastIs(contentBlocks, "text")
                   THEN SetLast(contentBlocks,
                          TextBlock(contentBlocks[Len(contentBlocks)].text \o ev.data))
                   ELSE contentBlocks
            /\ sse' = send(sse, Message(ev.data, "streaming"))
            /\ UNCHANGED currentToolUse
       ELSE /\ currentToolUse' =
                 IF currentToolUse.present
                   THEN [currentToolUse EXCEPT !.inputJson = @ \o ev.data]
                   ELSE currentToolUse
            /\ UNCHANGED <<fullResponse, contentBlocks, sse>>
  /\ UNCHANGED <<streamingStarted, toolUseBlocks, stopReason>>

OnContentBlockStop(ev) ==
  /\ ev.type = "content_block_stop"
  /\ IF currentToolUse.present
       THEN LET json == OrEmptyObject(currentToolUse.inputJson)
            IN  /\ IF JSONValid(json)
                     THEN /\ contentBlocks' =
                               IF LastIs(contentBlocks, "tool_use")
                                 THEN SetLast(contentBlocks,
                                        [contentBlocks[Len(contentBlocks)]
                                           EXCEPT !.input = JSONParse(json)])
                                 ELSE contentBlocks
                          /\ toolUseBlocks' =
                               Append(toolUseBlocks,
                                      [id |-> currentToolUse.id,
                                       name |-> currentToolUse.name,
                                       input |-> JSONParse(json)])
                     ELSE UNCHANGED <<contentBlocks, toolUseBlocks>>
                /\ currentToolUse' = NoToolUse
       ELSE UNCHANGED <<contentBlocks, toolUseBlocks, currentToolUse>>
  /\ UNCHANGED <<streamingStarted, fullResponse, stopReason, sse>>

OnMessageDelta(ev) ==
  /\ ev.type = "message_delta"
  /\ stopReason' = IF ev.kind # "" THEN ev.kind ELSE stopReason
  /\ UNCHANGED <<streamingStarted, fullResponse, toolUseBlocks, contentBlocks,
                 currentToolUse, sse>>

\* one increment consumed by the for-await loop
Decode(ev) ==
  /\ incoming' = Append(incoming, ev)
  /\ \/ OnContentBlockStart(ev)
     \/ OnContentBlockDelta(ev)
     \/ OnContentBlockStop(ev)
     \/ OnMessageDelta(ev)

(***************************************************************************)
(* Tool handlers.  `env` is what the external collaborators do during the  *)
(* call: env.kind is the outcome of the lookups, of the Tier 2 generation  *)
(* or of the record store, env.chunks the text deltas of the generation.   *)
(* A handler returns its ToolExecutionResult, the events it wrote to the   *)
(* stream and the artifact records it created.                             *)
(***************************************************************************)
Env(kind, chunks) == [kind |-> kind, chunks |-> chunks]

Result(success, content, error, events, created) ==
  [success |-> success, content |-> content, error |-> error,
   events |-> events, created |-> created]

ChunkEvents(chunks) == [i \in 1..Len(chunks) |-> Artifact("delta", <<chunks[i]>>)]

\* Tier2Executor.generateContent: the events sent before it returns or throws
generateContent(env) ==
  <<Artifact("start", <<>>)>> \o ChunkEvents(env.chunks)
    \o (IF env.kind = "stream_fail" THEN <<>> ELSE <<Artifact("end", <<>>)>>)

\* execute without its two analysis events
Tier2ExecuteQuiet(env) ==
  IF env.kind = "bad_type"
    THEN [threw |-> TRUE, events |-> <<ErrorEvent("")>>]
  ELSE IF env.kind = "stream_fail"
    THEN [threw |-> TRUE, events |-> generateContent(env) \o <<ErrorEvent("")>>]
  ELSE [threw |-> FALSE, events |-> generateContent(env)]

\* Tier2Executor.execute: [threw, events]
Tier2Execute(env) ==
  IF env.kind = "bad_type"
    THEN [threw |-> TRUE,
          events |-> <<Analysis("content_generation_start"), ErrorEvent("")>>]
  ELSE IF env.kind = "stream_fail"
    THEN [threw |-> TRUE,
          events |-> <<Analysis("content_generation_start")>> \o generateContent(env)
                       \o <<ErrorEvent("")>>]
  ELSE [threw |-> FALSE,
        events |-> <<Analysis("content_generation_start")>> \o generateContent(env)
                     \o <<Analysis("content_generated")>>]

\* executeFetchCanon, executeKnowledgeSearch, executeWebSearch.  The canon
\* repository throws; KnowledgeService.search and WebSearchService.search
\* catch the failure of their provider and return an empty result
executeReadTool(name, env) ==
  IF env.kind = "ok"
    THEN Result(TRUE, "formatted results", "", <<>>, <<>>)
  ELSE IF name = "fetch_canon"
    THEN Result(FALSE, "Failed to load", "collaborator error", <<>>, <<>>)
  ELSE Result(TRUE, "no results", "", <<>>, <<>>)

executeContentExecution(env) ==
  LET t2 == Tier2Execute(env)
  IN  IF t2.threw \/ env.kind = "save_fail"
        THEN Result(FALSE, "Failed to generate content", "error", t2.events, <<>>)
        ELSE Result(TRUE, "Content generated successfully!", "", t2.events,
                    <<[content |-> env.chunks]>>)

\* The input of validate_content: the content type, what the content
\* contains, and the compliance rules by what their name contains (a rule
\* with neither `rule` nor `name` has no name)
RuleNames == {"unsubscribe", "address", "other", "undefined"}
RuleSeqs == UNION {[1..n -> RuleNames] : n \in 0..MaxRules}

ContentFacts ==
  [unsubscribe : BOOLEAN, address : BOOLEAN, spamSubject : BOOLEAN, cta : BOOLEAN,
   long : BOOLEAN]

ValidationInputs ==
  [contentType : {"email", "ad"}, content : ContentFacts, rules : RuleSeqs]

Findings(threw, issues, warnings) ==
  [threw |-> threw, issues |-> issues, warnings |-> warnings]

\* the body of `for (const rule of complianceRules)` for one rule
checkRule(input, ruleName, found) ==
  LET email == input.contentType = "email"
      c == input.content
      issue == email /\ ruleName = "unsubscribe" /\ ~c.unsubscribe
      addressWarning == email /\ ruleName = "address" /\ ~c.address
      subjectWarning == email /\ c.spamSubject
      ctaWarning == ~c.cta /\ c.long
      count(b) == IF b THEN 1 ELSE 0
  IN  IF email /\ ruleName = "undefined"
        THEN Findings(TRUE, found.issues, found.warnings)
        ELSE Findings(FALSE, found.issues + count(issue),
                      found.warnings + count(addressWarning) + count(subjectWarning)
                        + count(ctaWarning))

RECURSIVE checkRules(_, _, _)
checkRules(input, rules, found) ==
  IF rules = <<>> \/ found.threw THEN found
  ELSE checkRules(input, Tail(rules), checkRule(input, Head(rules), found))

\* the status that puts the warnings before the issues
validationStatusWarningFirst(hasIssues, hasWarnings) ==
  IF hasWarnings THEN "warning" ELSE IF hasIssues THEN "failed" ELSE "passed"

\* issues.length > 0 ? 'failed' : warnings.length > 0 ? 'warning' : 'passed'
validationStatus(hasIssues, hasWarnings) ==
  IF hasIssues THEN "failed" ELSE IF hasWarnings THEN "warning" ELSE "passed"

\* What the rule loop of validate_content leaves to the rest of the handler
\* for one input: whether it found issues and warnings and whether there
\* were rules, or the TypeError it threw (the lists are lost then)
Checked(input) ==
  LET found == checkRules(input, input.rules, Findings(FALSE, 0, 0))
  IN  IF found.threw
        THEN [kind |-> "throw", chunks |-> <<>>, hasIssues |-> FALSE,
              hasWarnings |-> FALSE, hasRules |-> TRUE]
        ELSE [kind |-> "checked", chunks |-> <<>>, hasIssues |-> found.issues > 0,
              hasWarnings |-> found.warnings > 0, hasRules |-> input.rules # <<>>]

ValidationEnvs == {Checked(input) : input \in ValidationInputs}

executeValidateContent(env) ==
  IF env.kind = "throw"
    THEN Result(FALSE, "Failed to validate content", "error", <<>>, <<>>)
    ELSE Result(TRUE, validationStatus(env.hasIssues, env.hasWarnings), "", <<>>, <<>>)

\* executeTool whose default case reports success
executeToolDefaultOk(toolName, env) ==
  CASE toolName \in {"fetch_canon", "knowledge_search", "web_search"} ->
         executeReadTool(toolName, env)
    [] toolName = "content_execution" -> executeContentExecution(env)
    [] toolName = "validate_content" -> executeValidateContent(env)
    [] OTHER -> Result(TRUE, "Unknown tool", "", <<>>, <<>>)

executeTool(toolName, env) ==
  CASE toolName \in {"fetch_canon", "knowledge_search", "web_search"} ->
         executeReadTool(toolName, env)
    [] toolName = "content_execution" -> executeContentExecution(env)
    [] toolName = "validate_content" -> executeValidateContent(env)
    [] OTHER -> Result(FALSE, "Unknown tool", "Tool not found", <<>>, <<>>)

ChunkSeqs == UNION {[1..n -> {"a"}] : n \in 0..MaxChunks}

\* what the collaborators of a tool can do
Envs(toolName) ==
  CASE toolName \in {"fetch_canon", "knowledge_search", "web_search"} ->
         {Env("ok", <<>>), Env("throw", <<>>)}
    [] toolName = "content_execution" ->
         {Env("bad_type", <<>>)}
           \cup {Env(k, c) : k \in {"ok", "stream_fail", "save_fail"}, c \in ChunkSeqs}
    [] toolName = "validate_content" ->
         ValidationEnvs
    [] OTHER -> {Env("none", <<>>)}

AnalysisType(name) ==
  CASE name = "fetch_canon" -> "canon_loaded"
    [] name = "knowledge_search" -> "knowledge_summary"
    [] name = "web_search" -> "research_summary"
    [] name = "content_execution" -> "content_generated"
    [] name = "validate_content" -> "validation_complete"
    [] OTHER -> ""

ToolResult(id, output, isError) == [toolCallId |-> id, output |-> output, isError |-> isError]

\* the events of one iteration of the for loop of processToolCalls
ToolCallEvents(name, result) ==
  <<Thinking("executing")>> \o result.events
    \o (IF result.success
          THEN <<Thinking("completed")>>
                 \o (IF AnalysisType(name) # "" THEN <<Analysis(AnalysisType(name))>> ELSE <<>>)
          ELSE <<Thinking("failed")>>)

\* the whole array instead of its last n elements
LastNAll(s, n) == s

\* Array.prototype.slice(-n)
LastN(s, n) == IF n >= Len(s) THEN s ELSE SubSeq(s, Len(s) - n + 1, Len(s))

\* result.output || 'No output'
OrNoOutput(output) == IF output = "" THEN "No output" ELSE output

\* the tool-result turn with every block's is_error left false
toolResultsMessagePlain(results, n) ==
  LET last == LastN(results, n)
  IN  BlocksTurn("user",
        [i \in 1..Len(last) |->
           ToolResultBlock(last[i].toolCallId, OrNoOutput(last[i].output), FALSE)])

toolResultsMessage(results, n) ==
  LET last == LastN(results, n)
  IN  BlocksTurn("user",
        [i \in 1..Len(last) |->
           ToolResultBlock(last[i].toolCallId, OrNoOutput(last[i].output), last[i].isError)])

Some(blocks, toolName) == \E i \in 1..Len(blocks) : blocks[i].name = toolName

\* the text as it is, also when it is empty
OrEmpty(text) == text

\* fullResponse || 'Content generated successfully.'
OrFallback(text) == IF text = <<>> THEN Fallback ELSE text

\* the loop test with the bound off by one
LoopTestInclusive(cont, count) == cont /\ count <= maxLoops

\* the test of `while (continueLoop && loopCount < maxLoops)`
LoopTest(cont, count) == cont /\ count < maxLoops

AfterIteration(cont, count) == IF LoopTest(cont, count) THEN "Requesting" ELSE "Finalizing"

\* buildMessages: the turns of the context, then the current user message
\* unless the last turn is that very string
buildMessages(context) ==
  LET messages == SelectSeq(context, LAMBDA msg : msg.role \in {"user", "assistant"})
      isCurrentMessageInContext ==
        /\ Len(messages) > 0
        /\ messages[Len(messages)].role = "user"
        /\ messages[Len(messages)].isString
        /\ messages[Len(messages)].text = UserMessage
  IN  IF isCurrentMessageInContext
        THEN messages
        ELSE Append(messages, StringTurn("user", UserMessage))

(***************************************************************************)
(* The provider.  A scripted turn is a well-formed sequential stream: an   *)
(* optional text block, then tool_use blocks, then the stop reason.  The   *)
(* free provider sends any increment the protocol's event types allow:     *)
(* blocks may overlap, deltas may follow their block's stop, and the       *)
(* stream may end anywhere.                                                *)
(***************************************************************************)
ScriptTools == {"fetch_canon", "content_execution", "validate_content", UnknownTool}
FreeTools == {"fetch_canon", "web_search"}

ToolId(loop, index) == loop * 10 + index

\* sequences without repetition: a turn requests a tool at most once
SeqsUpTo(S, n) ==
  {s \in UNION {[1..k -> S] : k \in 0..n} :
     \A i, j \in 1..Len(s) : i # j => s[i] # s[j]}

RECURSIVE ToolBlocks(_, _, _)
ToolBlocks(names, loop, first) ==
  IF names = <<>> THEN <<>>
  ELSE <<StartTool(first, ToolId(loop, first), Head(names)), BlockStop(first)>>
         \o ToolBlocks(Tail(names), loop, first + 1)

ScriptedTurn(withText, names, loop) ==
  (IF withText THEN <<StartText(0), TextDelta(0, "a"), BlockStop(0)>> ELSE <<>>)
    \o ToolBlocks(names, loop, IF withText THEN 1 ELSE 0)
    \o <<MessageDelta(IF names = <<>> THEN "end_turn" ELSE "tool_use")>>

\* The turns the scripted provider can answer with.  The first turn of a run
\* is the rich one: it may come without text and request several tools; a
\* later turn carries text and requests at most one registered tool.
ScriptedTurns(loop) ==
  IF loop = 1
    THEN {ScriptedTurn(t, n, loop) :
            t \in BOOLEAN, n \in SeqsUpTo(ScriptTools, MaxTurnTools)}
    ELSE {ScriptedTurn(TRUE, n, loop) : n \in SeqsUpTo(ScriptTools \ {UnknownTool}, 1)}

Starts(evs) == {i \in 1..Len(evs) : evs[i].type = "content_block_start"}

StartOf(evs, index) == CHOOSE i \in Starts(evs) : evs[i].index = index

Stopped(evs, index) ==
  \E i \in 1..Len(evs) : evs[i].type = "content_block_stop" /\ evs[i].index = index

HasMessageDelta(evs) == \E i \in 1..Len(evs) : evs[i].type = "message_delta"

FreeEvents(evs, loop) ==
  LET n == Cardinality(Starts(evs))
      started(kind) == {evs[i].index : i \in {j \in Starts(evs) : evs[j].kind = kind}}
  IN  IF HasMessageDelta(evs) THEN {}
      ELSE (IF n < MaxDecSegments
              THEN {StartText(n)} \cup {StartTool(n, ToolId(loop, n), t) : t \in FreeTools}
              ELSE {})
           \cup {TextDelta(i, c) : i \in started("text"), c \in Chars}
           \cup {JsonDelta(i, c) : i \in started("tool_use"), c \in JChars}
           \cup {BlockStop(i) : i \in {j \in 0..(n - 1) : ~Stopped(evs, j)}}
           \cup {MessageDelta(r) : r \in StopReasons}

(***************************************************************************)
(* ChatService.processMessage                                              *)
(***************************************************************************)
\* the catch block without the finally block
FailNoClose(code, log) ==
  /\ sse' = send(log, ErrorEvent(code))
  /\ phase' = "Terminal"
  /\ outcome' = "failed"

\* catch (error) { stream.error(...) } finally { stream.close() }
Fail(code, log) ==
  /\ sse' = sendAll(log, <<ErrorEvent(code), Close>>)
  /\ phase' = "Terminal"
  /\ outcome' = "failed"

GetConversation ==
  /\ phase = "GetConversation"
  /\ \/ /\ phase' = "SaveUser"
        /\ sse' = send(sse, Thinking("saving"))
        /\ UNCHANGED outcome
     \/ Fail("CONVERSATION_ERROR", sse)
  /\ UNCHANGED <<mode, cacheVars, concurrentVars, serviceVars, connected, script, loopCount, continueLoop, toolIdx, decoderVars,
                 stateVars, calls, envs, artifacts>>

SaveUserMessage ==
  /\ phase = "SaveUser"
  /\ \/ /\ phase' = "LoadContext"
        /\ sse' = send(sse, Thinking("loading"))
        /\ UNCHANGED outcome
     \/ Fail("CHAT_ERROR", sse)
  /\ UNCHANGED <<mode, cacheVars, concurrentVars, serviceVars, connected, script, loopCount, continueLoop, toolIdx, decoderVars,
                 stateVars, calls, envs, artifacts>>

\* getConversationContext, then agentService.processWithAgents up to the
\* first test of the while loop of Tier1Orchestrator.run
LoadContext ==
  /\ phase = "LoadContext"
  /\ \/ /\ conversationContext' = <<StringTurn("user", UserMessage)>>
        /\ sse' = sendAll(sse, <<Thinking("processing"), Thinking("tier1")>>)
        /\ continueLoop' = TRUE
        /\ loopCount' = 0
        /\ phase' = AfterIteration(TRUE, 0)
        /\ UNCHANGED outcome
     \/ /\ Fail("CHAT_ERROR", sse)
        /\ UNCHANGED <<conversationContext, continueLoop, loopCount>>
  /\ UNCHANGED <<mode, cacheVars, concurrentVars, serviceVars, connected, script, toolIdx, decoderVars, toolResults, response,
                 stateError, calls, envs, artifacts>>

(***************************************************************************)
(* Tier1Orchestrator.run                                                   *)
(***************************************************************************)
\* loopCount++, the per-iteration locals, anthropic.messages.create
Request ==
  /\ phase = "Requesting"
  /\ loopCount' = loopCount + 1
  /\ incoming' = <<>>
  /\ streamingStarted' = FALSE
  /\ fullResponse' = <<>>
  /\ toolUseBlocks' = <<>>
  /\ contentBlocks' = <<>>
  /\ currentToolUse' = NoToolUse
  /\ stopReason' = ""
  /\ \/ /\ phase' = "Decoding"
        /\ script' \in (IF mode = "scripted" THEN ScriptedTurns(loopCount') ELSE {<<>>})
        /\ UNCHANGED <<outcome, sse, stateError>>
     \/ /\ Fail("CHAT_ERROR", sse)
        /\ stateError' = "transport"
        /\ UNCHANGED script
  /\ UNCHANGED <<mode, cacheVars, concurrentVars, serviceVars, connected, continueLoop, toolIdx, conversationContext, toolResults,
                 response, calls, envs, artifacts>>

ProviderScripted ==
  /\ phase = "Decoding"
  /\ mode = "scripted"
  /\ script # <<>>
  /\ Decode(Head(script))
  /\ script' = Tail(script)
  /\ UNCHANGED <<phase, outcome, mode, cacheVars, concurrentVars, serviceVars, connected, loopCount, continueLoop, toolIdx, stateVars,
                 calls, envs, artifacts>>

ProviderFree ==
  /\ phase = "Decoding"
  /\ mode = "free"
  /\ loopCount = 1
  /\ Len(incoming) < MaxDecEvents
  /\ \E ev \in FreeEvents(incoming, loopCount) : Decode(ev)
  /\ UNCHANGED <<phase, outcome, mode, cacheVars, concurrentVars, serviceVars, connected, script, loopCount, continueLoop, toolIdx,
                 stateVars, calls, envs, artifacts>>

\* the for-await loop throws: catch of run, then catch of processMessage
StreamFail ==
  /\ phase = "Decoding"
  /\ mode = "scripted" => incoming = <<>>
  /\ Fail("CHAT_ERROR", sse)
  /\ stateError' = "transport"
  /\ UNCHANGED <<mode, cacheVars, concurrentVars, serviceVars, connected, script, loopCount, continueLoop, toolIdx, decoderVars,
                 conversationContext, toolResults, response, calls, envs, artifacts>>

\* the test without the stop reason
ShouldDispatchAnyReason(blocks, reason) == Len(blocks) > 0

\* `if (toolUseBlocks.length > 0 && stopReason === 'tool_use')`
ShouldDispatch(blocks, reason) == Len(blocks) > 0 /\ reason = "tool_use"

\* the stream ends: dispatch the round or take the text as the answer
StreamEnd ==
  /\ phase = "Decoding"
  /\ mode = "scripted" => script = <<>>
  /\ IF ShouldDispatch(toolUseBlocks, stopReason)
       THEN /\ phase' = "Dispatching"
            /\ toolIdx' = 1
            /\ UNCHANGED <<response, continueLoop>>
       ELSE /\ response' = fullResponse
            /\ continueLoop' = FALSE
            /\ phase' = AfterIteration(FALSE, loopCount)
            /\ UNCHANGED toolIdx
  /\ UNCHANGED <<outcome, mode, cacheVars, concurrentVars, serviceVars, connected, script, loopCount, decoderVars, conversationContext,
                 toolResults, stateError, calls, envs, artifacts, sse>>

\* one iteration of `for (const toolUse of toolUseBlocks)` in processToolCalls
ExecuteToolCall ==
  /\ phase = "Dispatching"
  /\ toolIdx <= Len(toolUseBlocks)
  /\ LET toolUse == toolUseBlocks[toolIdx]
     IN  \E env \in Envs(toolUse.name) :
           LET result == executeTool(toolUse.name, env)
           IN  /\ calls' = Append(calls, [id |-> toolUse.id, name |-> toolUse.name,
                                          input |-> toolUse.input, loop |-> loopCount])
               /\ envs' = Append(envs, env)
               /\ toolResults' = Append(toolResults,
                                   ToolResult(toolUse.id, result.content, ~result.success))
               /\ artifacts' = artifacts \o result.created
               /\ sse' = sendAll(sse, ToolCallEvents(toolUse.name, result))
  /\ toolIdx' = toolIdx + 1
  /\ UNCHANGED <<phase, outcome, mode, cacheVars, concurrentVars, serviceVars, connected, script, loopCount, continueLoop, decoderVars,
                 conversationContext, response, stateError>>

\* after processToolCalls returned: the two turns and the termination test
FinishDispatch ==
  /\ phase = "Dispatching"
  /\ toolIdx > Len(toolUseBlocks)
  /\ LET hasContentExecution == Some(toolUseBlocks, "content_execution")
         hasValidation == Some(toolUseBlocks, "validate_content")
         withAssistant == IF Len(contentBlocks) > 0
                            THEN Append(conversationContext,
                                        BlocksTurn("assistant", contentBlocks))
                            ELSE conversationContext
         stop == hasValidation \/ (hasContentExecution /\ loopCount >= 2)
     IN  /\ conversationContext' =
               Append(withAssistant, toolResultsMessage(toolResults, Len(toolUseBlocks)))
         /\ response' = IF stop THEN OrFallback(fullResponse) ELSE response
         /\ continueLoop' = ~stop
         /\ phase' = AfterIteration(~stop, loopCount)
  /\ UNCHANGED <<outcome, mode, cacheVars, concurrentVars, serviceVars, connected, script, loopCount, toolIdx, decoderVars, toolResults,
                 stateError, calls, envs, artifacts, sse>>

\* the final message with the fallback text in place of an empty answer
FinalizeFallback ==
  /\ phase = "Finalizing"
  /\ \/ /\ sse' = sendAll(sse, <<Message(OrFallback(response), "final"), Done, Close>>)
        /\ phase' = "Terminal"
        /\ outcome' = "completed"
     \/ Fail("CHAT_ERROR", sse)
  /\ UNCHANGED <<mode, cacheVars, concurrentVars, serviceVars, connected, script, loopCount, continueLoop, toolIdx,
                 decoderVars, stateVars, calls, envs, artifacts>>

\* run returned: save the assistant message, send it, done, close
Finalize ==
  /\ phase = "Finalizing"
  /\ \/ /\ sse' = sendAll(sse, <<Message(response, "final"), Done, Close>>)
        /\ phase' = "Terminal"
        /\ outcome' = "completed"
     \/ Fail("CHAT_ERROR", sse)
  /\ UNCHANGED <<mode, cacheVars, concurrentVars, serviceVars, connected, script, loopCount, continueLoop, toolIdx, decoderVars,
                 stateVars, calls, envs, artifacts>>

(***************************************************************************)
(* The cache.  Both cache services work on the one Redis keyspace.  A key  *)
(* is a sequence of atoms: the literal prefixes are one atom each, ids and *)
(* caller keys are sequences of characters.  A cached value is null or an  *)
(* array; the store holds its JSON text.                                   *)
(***************************************************************************)
CacheLayers == {"canon", "http"}
CallerKeys == {<<"k">>, <<"k", "k">>}
ProfileIds == {<<"p">>, <<"p", "p">>}
ContentTypes == {<<"e">>}

JsNull == [type |-> "null", items |-> <<>>]
JsArray(items) == [type |-> "array", items |-> items]
JsObject(items) == [type |-> "object", items |-> items]
FetchResults == {JsNull, JsArray(<<>>), JsArray(<<"c">>)}

\* an optional number argument
NoTTL == [given |-> FALSE, value |-> 0]
GivenTTL(n) == [given |-> TRUE, value |-> n]
TTLOverrides == {NoTTL, GivenTTL(0), GivenTTL(1)}

JSONStringify(v) ==
  IF v.type = "null" THEN <<"null">>
  ELSE IF v.type = "object" THEN <<"{">> \o v.items \o <<"}">>
  ELSE <<"[">> \o v.items \o <<"]">>

\* JSON.parse of a text written by JSONStringify
JSONParseValue(text) ==
  IF text = <<"null">> THEN JsNull
  ELSE IF Head(text) = "{" THEN JsObject(SubSeq(text, 2, Len(text) - 1))
  ELSE JsArray(SubSeq(text, 2, Len(text) - 1))

\* config.cache.ttl: configuration, here in seconds of the model's clock
ConfigTTL == [session |-> 1, knowledge |-> 2, canon |-> 3]

getTTL(layer) ==
  CASE layer = "session" -> ConfigTTL.session
    [] layer = "knowledge" -> ConfigTTL.knowledge
    [] layer = "canon" -> ConfigTTL.canon
    [] OTHER -> DefaultLayerTTL

buildKey(layer, key) == <<"marketerx:", layer, ":">> \o key

canonKey(businessProfileId, contentType) ==
  <<"canon:">> \o businessProfileId \o <<":">> \o contentType

AllKeys ==
  {buildKey(l, k) : l \in CacheLayers, k \in CallerKeys}
    \cup {canonKey(p, c) : p \in ProfileIds, c \in ContentTypes}

NoEntry == [present |-> FALSE, text |-> <<>>, expiresAt |-> 0]
Entry(text, expiresAt) == [present |-> TRUE, text |-> text, expiresAt |-> expiresAt]

Live(s, t, key) == s[key].present /\ t < s[key].expiresAt

\* redis.get: the text, or nil (here the empty text)
redisGet(s, t, key) == IF Live(s, t, key) THEN s[key].text ELSE <<>>

\* redis.setex: a ttl that is not positive is an error and stores nothing
redisSetex(s, t, key, ttl, text) ==
  IF ttl > 0 THEN [s EXCEPT ![key] = Entry(text, t + ttl)] ELSE s

RECURSIVE GlobMatch(_, _)
\* the glob of redis.keys; * matches any run of atoms
GlobMatch(pattern, key) ==
  IF pattern = <<>> THEN key = <<>>
  ELSE IF Head(pattern) = "*"
    THEN \/ GlobMatch(Tail(pattern), key)
         \/ key # <<>> /\ GlobMatch(pattern, Tail(key))
  ELSE /\ key # <<>>
       /\ Head(key) = Head(pattern)
       /\ GlobMatch(Tail(pattern), Tail(key))

redisKeys(s, t, pattern) == {k \in AllKeys : Live(s, t, k) /\ GlobMatch(pattern, k)}

redisDel(s, keys) == [k \in AllKeys |-> IF k \in keys THEN NoEntry ELSE s[k]]

\* CacheService.get of cache.service.ts: `if (!value) return null`
get(s, t, layer, key) ==
  LET value == redisGet(s, t, buildKey(layer, key))
  IN  IF value = <<>> THEN JsNull ELSE JSONParseValue(value)

\* customTTL || this.getTTL(layer)
OrLayerTTL(customTTL, layer) ==
  IF customTTL.given /\ customTTL.value # 0 THEN customTTL.value ELSE getTTL(layer)

\* CacheService.set of cache.service.ts: the keyspace after the call
set(s, t, layer, key, value, customTTL) ==
  redisSetex(s, t, buildKey(layer, key), OrLayerTTL(customTTL, layer),
             JSONStringify(value))

\* CacheService.getOrSet: [returned, fetched, store]; fetchFn returns `fetch`
getOrSet(s, t, layer, key, fetch, customTTL) ==
  LET cached == get(s, t, layer, key)
  IN  IF cached # JsNull
        THEN [returned |-> cached, fetched |-> FALSE, store |-> s]
        ELSE [returned |-> fetch, fetched |-> TRUE,
              store |-> set(s, t, layer, key, fetch, customTTL)]

\* CacheService.clearLayer
clearLayer(s, t, layer) == redisDel(s, redisKeys(s, t, buildKey(layer, <<"*">>)))

\* CacheService.deletePattern of the instance service
deletePattern(s, t, pattern) == redisDel(s, redisKeys(s, t, pattern))

\* the pattern without the separator after the profile id
invalidateCanonLoose(s, t, businessProfileId) ==
  deletePattern(s, t, <<"canon:">> \o businessProfileId \o <<"*">>)

\* CacheService.invalidateCanon: `canon:${businessProfileId}:*`
invalidateCanon(s, t, businessProfileId) ==
  deletePattern(s, t, <<"canon:">> \o businessProfileId \o <<":", "*">>)

\* CacheService.cacheCanon of the instance service: set(key, data, ttls.canon)
cacheCanon(s, t, businessProfileId, contentType, data) ==
  redisSetex(s, t, canonKey(businessProfileId, contentType), ConfigTTL.canon,
             JSONStringify(data))

\* an operation as its caller saw it: arguments, returned value, whether
\* fetchFn ran, how many keys it deleted
Op(seq, op, key, customTTL, returned, fetched, deleted) ==
  [seq |-> seq, op |-> op, key |-> key, customTTL |-> customTTL,
   returned |-> returned, fetched |-> fetched, deleted |-> deleted]

Deleted(before, after) ==
  Cardinality({k \in AllKeys : before[k].present /\ ~after[k].present})

CacheReady == mode = "cache" /\ lastOp.seq < MaxCacheOps

GetOrSet ==
  /\ CacheReady
  /\ UNCHANGED <<runVars, serviceVars, concurrentVars>>
  /\ \E layer \in CacheLayers, key \in CallerKeys, fetch \in FetchResults,
        customTTL \in TTLOverrides :
       LET r == getOrSet(store, now, layer, key, fetch, customTTL)
       IN  /\ store' = r.store
           /\ lastOp' = Op(lastOp.seq + 1, "getOrSet", buildKey(layer, key), customTTL,
                           r.returned, r.fetched, 0)
  /\ UNCHANGED now

CacheCanon ==
  /\ CacheReady
  /\ UNCHANGED <<runVars, serviceVars, concurrentVars>>
  /\ \E p \in ProfileIds, c \in ContentTypes, data \in FetchResults \ {JsNull} :
       /\ store' = cacheCanon(store, now, p, c, data)
       /\ lastOp' = Op(lastOp.seq + 1, "cacheCanon", canonKey(p, c), NoTTL, JsNull,
                       FALSE, 0)
  /\ UNCHANGED now

InvalidateCanon ==
  /\ CacheReady
  /\ UNCHANGED <<runVars, serviceVars, concurrentVars>>
  /\ \E p \in ProfileIds :
       /\ store' = invalidateCanon(store, now, p)
       /\ lastOp' = Op(lastOp.seq + 1, "invalidateCanon", <<"canon:">> \o p \o <<":">>,
                       NoTTL, JsNull, FALSE, Deleted(store, store'))
  /\ UNCHANGED now

ClearLayer ==
  /\ CacheReady
  /\ UNCHANGED <<runVars, serviceVars, concurrentVars>>
  /\ \E layer \in CacheLayers :
       /\ store' = clearLayer(store, now, layer)
       /\ lastOp' = Op(lastOp.seq + 1, "clearLayer", buildKey(layer, <<>>), NoTTL, JsNull,
                       FALSE, Deleted(store, store'))
  /\ UNCHANGED now

\* a second passes; Redis drops the entries that expire
Tick ==
  /\ mode \in {"cache", "race"}
  /\ now < MaxClock
  /\ now' = now + 1
  /\ store' = [k \in AllKeys |-> IF Live(store, now', k) THEN store[k] ELSE NoEntry]
  /\ UNCHANGED <<lastOp, runVars, serviceVars, concurrentVars>>

(***************************************************************************)
(* Concurrent callers of CacheService.getOrSet.  A call is suspended at    *)
(* each await: after get, after fetchFn, after set.  setex is one Redis    *)
(* command.                                                                *)
(***************************************************************************)
Callers == {1, 2}

\* what the callers pass
RaceKeys == {<<"k">>}
RaceTTLs == {NoTTL, GivenTTL(1)}

NoCall == [pc |-> "idle", round |-> 0, layer |-> "", key |-> <<>>, customTTL |-> NoTTL,
           sawEntry |-> FALSE, fetched |-> FALSE, value |-> JsNull, returned |-> JsNull]

NoWrite == [written |-> FALSE, value |-> JsNull]
Write(value) == [written |-> TRUE, value |-> value]

\* getOrSet is called
GetOrSetCall(c) ==
  /\ mode = "race"
  /\ inFlight[c].pc \in {"idle", "done"}
  /\ inFlight[c].round < MaxRounds
  /\ \E layer \in CacheLayers, key \in RaceKeys, customTTL \in RaceTTLs :
       inFlight' = [inFlight EXCEPT ![c] =
                      [NoCall EXCEPT !.pc = "get", !.round = inFlight[c].round + 1,
                                     !.layer = layer, !.key = key,
                                     !.customTTL = customTTL]]
  /\ UNCHANGED <<runVars, serviceVars, cacheVars, lastWrite, rows, creating>>

\* const cached = await this.get(layer, key); if (cached !== null) return cached
GetOrSetGet(c) ==
  /\ mode = "race"
  /\ inFlight[c].pc = "get"
  /\ LET call == inFlight[c]
         cached == get(store, now, call.layer, call.key)
     IN  inFlight' = [inFlight EXCEPT ![c] =
                        [call EXCEPT !.sawEntry = Live(store, now, buildKey(call.layer, call.key)),
                                     !.returned = cached,
                                     !.pc = IF cached # JsNull THEN "done" ELSE "fetch"]]
  /\ UNCHANGED <<runVars, serviceVars, cacheVars, lastWrite, rows, creating>>

\* const value = await fetchFn()
GetOrSetFetch(c) ==
  /\ mode = "race"
  /\ inFlight[c].pc = "fetch"
  /\ \E value \in FetchResults :
       inFlight' = [inFlight EXCEPT ![c] =
                      [inFlight[c] EXCEPT !.fetched = TRUE, !.value = value, !.pc = "set"]]
  /\ UNCHANGED <<runVars, serviceVars, cacheVars, lastWrite, rows, creating>>

\* await this.set(layer, key, value, customTTL); return value
GetOrSetSet(c) ==
  /\ mode = "race"
  /\ inFlight[c].pc = "set"
  /\ LET call == inFlight[c]
     IN  /\ store' = set(store, now, call.layer, call.key, call.value, call.customTTL)
         /\ lastWrite' = [lastWrite EXCEPT ![buildKey(call.layer, call.key)] = Write(call.value)]
         /\ inFlight' = [inFlight EXCEPT ![c] =
                           [call EXCEPT !.returned = call.value, !.pc = "done"]]
  /\ UNCHANGED <<runVars, serviceVars, now, lastOp, rows, creating>>

(***************************************************************************)
(* Concurrent chat requests saving their turns.  MessageRepository.create  *)
(* is suspended between its count query and its insert.                    *)
(***************************************************************************)
Requests == 1..MaxRequests
ConversationIds == {"a", "b"}

\* the count of a query that failed
CountNull == -1

NoCreate == [pc |-> "idle", conversationId |-> "", role |-> "", count |-> 0, saved |-> 0]

Row(conversationId, role, messageOrder) ==
  [conversation_id |-> conversationId, role |-> role, message_order |-> messageOrder]

\* select('*', {count: 'exact', head: true}).eq('conversation_id', id)
CountRows(table, conversationId) ==
  Cardinality({i \in 1..Len(table) : table[i].conversation_id = conversationId})

\* (count || 0) + 1
NextMessageOrder(count) == (IF count = CountNull \/ count = 0 THEN 0 ELSE count) + 1

\* MessageRepository.create up to its insert; processMessage saves the user
\* message, then the assistant message, into the conversation of the request
CreateCount(r) ==
  /\ mode = "messages"
  /\ creating[r].pc = "idle"
  /\ creating[r].saved < 2
  /\ \E conversationId \in ConversationIds :
       /\ creating[r].saved > 0 => conversationId = creating[r].conversationId
       /\ \E count \in {CountRows(rows, conversationId), CountNull} :
            creating' = [creating EXCEPT ![r] =
                           [pc |-> "counted", conversationId |-> conversationId,
                            role |-> IF creating[r].saved = 0 THEN "user" ELSE "assistant",
                            count |-> count, saved |-> creating[r].saved]]
  /\ UNCHANGED <<runVars, serviceVars, cacheVars, inFlight, lastWrite, rows>>

\* the insert of MessageRepository.create; `if (error) throw`
CreateInsert(r) ==
  /\ mode = "messages"
  /\ creating[r].pc = "counted"
  /\ \/ /\ rows' = Append(rows, Row(creating[r].conversationId, creating[r].role,
                                    NextMessageOrder(creating[r].count)))
        /\ creating' = [creating EXCEPT ![r].pc = "idle", ![r].saved = @ + 1]
     \/ /\ creating' = [creating EXCEPT ![r].pc = "failed"]
        /\ UNCHANGED rows
  /\ UNCHANGED <<runVars, serviceVars, cacheVars, inFlight, lastWrite>>

(***************************************************************************)
(* The services behind the read handlers.  A collaborator either answers   *)
(* or throws.  Each operator gives the value the service returns (or that  *)
(* it threw), the keyspace after the call and how often the collaborator   *)
(* was called.                                                             *)
(***************************************************************************)
ReadToolNames == {"fetch_canon", "knowledge_search", "web_search"}

CanonRows == {JsArray(<<>>), JsArray(<<"c">>)}
KnowledgeRows == {JsArray(<<>>), JsArray(<<"d">>)}
TavilyResponses == {JsObject(<<"a">>), JsObject(<<"r", "a">>)}

Answers(value) == [kind |-> "ok", value |-> value]
Throws == [kind |-> "throw", value |-> JsNull]

Collaborator(name) ==
  {Throws} \cup {Answers(v) : v \in (CASE name = "fetch_canon" -> CanonRows
                                      [] name = "knowledge_search" -> KnowledgeRows
                                      [] OTHER -> TavilyResponses)}

Served(threw, returned, s, providerCalls) ==
  [threw |-> threw, returned |-> returned, store |-> s, providerCalls |-> providerCalls]

\* CanonService.fetchCanons: getOrSet(CacheLayer.Canon, cacheKey, repository)
fetchCanons(s, t, key, env) ==
  LET cached == get(s, t, "canon", key)
  IN  IF cached # JsNull THEN Served(FALSE, cached, s, 0)
      ELSE IF env.kind = "throw" THEN Served(TRUE, JsNull, s, 1)
      ELSE Served(FALSE, env.value, set(s, t, "canon", key, env.value, NoTTL), 1)

\* KnowledgeService.search: embedding and similarity search; `catch { return [] }`
knowledgeSearch(s, t, key, env) ==
  IF env.kind = "throw" THEN Served(FALSE, JsArray(<<>>), s, 1)
  ELSE Served(FALSE, env.value, s, 1)

\* the response WebSearchService.search returns when the provider fails
EmptyResponse == JsObject(<<>>)

\* the response cached on failure as well
webSearchCaching(s, t, key, env) ==
  LET cached == get(s, t, "http", key)
  IN  IF cached # JsNull THEN Served(FALSE, cached, s, 0)
      ELSE LET searchResponse == IF env.kind = "throw" THEN EmptyResponse ELSE env.value
           IN  Served(FALSE, searchResponse,
                      set(s, t, "http", key, searchResponse, GivenTTL(300)), 1)

\* WebSearchService.search: get, provider, set(CacheLayer.Http, cacheKey, response, 300)
webSearch(s, t, key, env) ==
  LET cached == get(s, t, "http", key)
  IN  IF cached # JsNull THEN Served(FALSE, cached, s, 0)
      ELSE IF env.kind = "throw" THEN Served(FALSE, EmptyResponse, s, 1)
      ELSE Served(FALSE, env.value, set(s, t, "http", key, env.value, GivenTTL(300)), 1)

readService(name, s, t, key, env) ==
  CASE name = "fetch_canon" -> fetchCanons(s, t, key, env)
    [] name = "knowledge_search" -> knowledgeSearch(s, t, key, env)
    [] OTHER -> webSearch(s, t, key, env)

\* one call of a read handler as it went: success is the handler's result
Read(name, key, env, served) ==
  [name |-> name, key |-> key, provider |-> env.kind, offered |-> env.value,
   success |-> ~served.threw, returned |-> served.returned,
   providerCalls |-> served.providerCalls]

\* executeFetchCanon / executeKnowledgeSearch / executeWebSearch on the cache
ReadHandler ==
  /\ mode = "reads"
  /\ Len(reads) < MaxReads
  /\ \E name \in ReadToolNames, key \in CallerKeys :
       \E env \in Collaborator(name) :
         LET served == readService(name, store, now, key, env)
         IN  /\ store' = served.store
             /\ reads' = Append(reads, Read(name, key, env, served))
  /\ UNCHANGED <<runVars, now, lastOp, concurrentVars, lastCall, canonDb, canonCalls>>

(***************************************************************************)
(* CanonService of the instance services: a canon read and a canon change  *)
(* running concurrently, each suspended at its awaits.  The canon items of *)
(* a profile are known by their version in the record store.               *)
(***************************************************************************)
NoCanonCalls ==
  [readPc |-> "idle", readProfile |-> <<>>, readType |-> <<>>, loaded |-> 0,
   changePc |-> "idle", changeProfile |-> <<>>]

\* the CanonLoadResult built from the items of a version
CanonLoadResult(version) == JsObject(<<ToString(version)>>)

\* cacheService.getCanon: get(`canon:${businessProfileId}:${contentType}`)
getCanon(s, t, businessProfileId, contentType) ==
  LET data == redisGet(s, t, canonKey(businessProfileId, contentType))
  IN  IF data = <<>> THEN JsNull ELSE JSONParseValue(data)

\* fetchCanon: `if (cached) return {...cached, fromCache: true}`
FetchCanonGet ==
  /\ mode = "canon"
  /\ canonCalls.readPc = "idle"
  /\ \E p \in ProfileIds, c \in ContentTypes :
       canonCalls' = [canonCalls EXCEPT
                        !.readProfile = p, !.readType = c,
                        !.readPc = IF getCanon(store, now, p, c) # JsNull
                                     THEN "idle" ELSE "load"]
  /\ UNCHANGED <<runVars, cacheVars, concurrentVars, lastCall, reads, canonDb>>

\* fetchCanon: const items = await canonRepository.getCanonItems(...)
FetchCanonLoad ==
  /\ mode = "canon"
  /\ canonCalls.readPc = "load"
  /\ \/ canonCalls' = [canonCalls EXCEPT !.loaded = canonDb[canonCalls.readProfile],
                                          !.readPc = "cache"]
     \/ canonCalls' = [canonCalls EXCEPT !.readPc = "idle"]
  /\ UNCHANGED <<runVars, cacheVars, concurrentVars, lastCall, reads, canonDb>>

\* fetchCanon: await cacheService.cacheCanon(businessProfileId, cacheKey, result)
FetchCanonCache ==
  /\ mode = "canon"
  /\ canonCalls.readPc = "cache"
  /\ store' = cacheCanon(store, now, canonCalls.readProfile, canonCalls.readType,
                         CanonLoadResult(canonCalls.loaded))
  /\ canonCalls' = [canonCalls EXCEPT !.readPc = "idle"]
  /\ UNCHANGED <<runVars, now, lastOp, concurrentVars, lastCall, reads, canonDb>>

\* createCanonItem / updateCanonItem: the write of the repository, or its throw
ChangeCanonWrite ==
  /\ mode = "canon"
  /\ canonCalls.changePc = "idle"
  /\ \E p \in ProfileIds :
       /\ canonDb[p] < MaxChanges
       /\ \/ /\ canonDb' = [canonDb EXCEPT ![p] = @ + 1]
             /\ canonCalls' = [canonCalls EXCEPT !.changeProfile = p,
                                                 !.changePc = "invalidate"]
          \/ /\ canonCalls' = [canonCalls EXCEPT !.changeProfile = p]
             /\ UNCHANGED canonDb
  /\ UNCHANGED <<runVars, cacheVars, concurrentVars, lastCall, reads>>

\* createCanonItem / updateCanonItem: await cacheService.invalidateCanon(id)
ChangeCanonInvalidate ==
  /\ mode = "canon"
  /\ canonCalls.changePc = "invalidate"
  /\ store' = invalidateCanon(store, now, canonCalls.changeProfile)
  /\ canonCalls' = [canonCalls EXCEPT !.changePc = "idle"]
  /\ UNCHANGED <<runVars, now, lastOp, concurrentVars, lastCall, reads, canonDb>>

(***************************************************************************)
(* CacheService on a backend that can fail: redisOk says whether the Redis *)
(* command of the call succeeds.  get and set catch and log.               *)
(***************************************************************************)
Got(threw, value) == [threw |-> threw, value |-> value]

\* get whose catch rethrows
getRethrowing(s, t, layer, key, redisOk) ==
  IF redisOk THEN Got(FALSE, get(s, t, layer, key)) ELSE Got(TRUE, JsNull)

\* CacheService.get: `catch (error) { logger.error(...); return null }`
getCatching(s, t, layer, key, redisOk) ==
  IF redisOk THEN Got(FALSE, get(s, t, layer, key)) ELSE Got(FALSE, JsNull)

\* CacheService.set: `catch (error) { logger.error(...) }`: the keyspace after
setCatching(s, t, layer, key, value, customTTL, redisOk) ==
  IF redisOk THEN set(s, t, layer, key, value, customTTL) ELSE s

Attempted(threw, returned, fetched, s) ==
  [threw |-> threw, returned |-> returned, fetched |-> fetched, store |-> s]

\* CacheService.getOrSet; fetchFn answers or throws, as `compute` says
getOrSetCatching(s, t, layer, key, compute, customTTL, readOk, writeOk) ==
  LET cached == getCatching(s, t, layer, key, readOk)
  IN  IF cached.threw THEN Attempted(TRUE, JsNull, FALSE, s)
      ELSE IF cached.value # JsNull THEN Attempted(FALSE, cached.value, FALSE, s)
      ELSE IF compute.kind = "throw" THEN Attempted(TRUE, JsNull, TRUE, s)
      ELSE Attempted(FALSE, compute.value, TRUE,
                     setCatching(s, t, layer, key, compute.value, customTTL, writeOk))

Computes == {Throws} \cup {Answers(v) : v \in FetchResults}

NoAttempt ==
  [seq |-> 0, key |-> <<>>, readOk |-> TRUE, writeOk |-> TRUE, compute |-> Throws,
   before |-> NoEntry, threw |-> FALSE, returned |-> JsNull, fetched |-> FALSE]

\* one getOrSet while the backend fails or not
GetOrSetOnBackend ==
  /\ mode = "backend"
  /\ lastCall.seq < MaxCacheOps
  /\ \E layer \in CacheLayers, key \in CallerKeys, compute \in Computes,
        readOk \in BOOLEAN, writeOk \in BOOLEAN :
       LET r == getOrSetCatching(store, now, layer, key, compute, NoTTL, readOk, writeOk)
       IN  /\ store' = r.store
           /\ lastCall' = [seq |-> lastCall.seq + 1, key |-> buildKey(layer, key),
                           readOk |-> readOk, writeOk |-> writeOk, compute |-> compute,
                           before |-> store[buildKey(layer, key)], threw |-> r.threw,
                           returned |-> r.returned, fetched |-> r.fetched]
  /\ UNCHANGED <<runVars, now, lastOp, concurrentVars, reads, canonDb, canonCalls>>

(***************************************************************************)
(* Specifications                                                          *)
(***************************************************************************)
InitWith(m) ==
  /\ phase = "GetConversation"
  /\ outcome = "running"
  /\ mode = m
  /\ script = <<>>
  /\ incoming = <<>>
  /\ loopCount = 0
  /\ continueLoop = TRUE
  /\ streamingStarted = FALSE
  /\ fullResponse = <<>>
  /\ toolUseBlocks = <<>>
  /\ contentBlocks = <<>>
  /\ currentToolUse = NoToolUse
  /\ stopReason = ""
  /\ toolIdx = 1
  /\ conversationContext = <<>>
  /\ toolResults = <<>>
  /\ response = <<>>
  /\ stateError = ""
  /\ calls = <<>>
  /\ envs = <<>>
  /\ artifacts = <<>>
  /\ sse = <<>>
  /\ store = [k \in AllKeys |-> NoEntry]
  /\ now = 0
  /\ lastOp = Op(0, "", <<>>, NoTTL, JsNull, FALSE, 0)
  /\ connected = TRUE
  /\ inFlight = [c \in Callers |-> NoCall]
  /\ lastWrite = [k \in AllKeys |-> NoWrite]
  /\ rows = <<>>
  /\ creating = [r \in Requests |-> NoCreate]
  /\ reads = <<>>
  /\ canonDb = [p \in ProfileIds |-> 0]
  /\ canonCalls = NoCanonCalls
  /\ lastCall = NoAttempt

Init == InitWith("scripted")

InitDecoder == InitWith("free")

Next ==
  \/ GetConversation
  \/ SaveUserMessage
  \/ LoadContext
  \/ Request
  \/ ProviderScripted
  \/ StreamFail
  \/ StreamEnd
  \/ ExecuteToolCall
  \/ FinishDispatch
  \/ Finalize

NextDecoder ==
  \/ GetConversation
  \/ SaveUserMessage
  \/ LoadContext
  \/ Request
  \/ ProviderFree
  \/ StreamFail
  \/ StreamEnd
  \/ ExecuteToolCall
  \/ FinishDispatch
  \/ Finalize

\* one request handled by the scripted provider
Spec == Init /\ [][Next]_vars

\* the same, with every started step eventually taken
FairSpec == Init /\ [][Next]_vars /\ WF_vars(Next)

\* one request whose first model turn is free-form
SpecDecoder == InitDecoder /\ [][NextDecoder]_vars

\* the subscriber closes the connection while the request is being handled;
\* chatRoutes registers no listener on the socket
Disconnect ==
  /\ phase # "Terminal"
  /\ mode = "scripted"
  /\ connected
  /\ connected' = FALSE
  /\ UNCHANGED <<phase, outcome, mode, cacheVars, concurrentVars, serviceVars, script, loopCount, continueLoop, toolIdx,
                 decoderVars, stateVars, calls, envs, artifacts, sse>>

NextDisconnect ==
  \/ GetConversation
  \/ SaveUserMessage
  \/ LoadContext
  \/ Request
  \/ ProviderScripted
  \/ StreamFail
  \/ StreamEnd
  \/ ExecuteToolCall
  \/ FinishDispatch
  \/ Finalize
  \/ Disconnect

\* one request whose subscriber may disconnect at any moment
SpecDisconnect == Init /\ [][NextDisconnect]_vars

InitCache == InitWith("cache")

NextCache ==
  \/ GetOrSet
  \/ CacheCanon
  \/ InvalidateCanon
  \/ ClearLayer
  \/ Tick

\* one client of the two cache services, one operation at a time
SpecCache == InitCache /\ [][NextCache]_vars

InitRace == InitWith("race")

NextRace ==
  \/ \E c \in Callers : GetOrSetCall(c)
  \/ \E c \in Callers : GetOrSetGet(c)
  \/ \E c \in Callers : GetOrSetFetch(c)
  \/ \E c \in Callers : GetOrSetSet(c)
  \/ Tick

\* two callers of getOrSet whose calls interleave at every await
SpecRace == InitRace /\ [][NextRace]_vars

InitMessages == InitWith("messages")

NextMessages ==
  \/ \E r \in Requests : CreateCount(r)
  \/ \E r \in Requests : CreateInsert(r)

\* concurrent requests saving their turns
SpecMessages == InitMessages /\ [][NextMessages]_vars

InitReads == InitWith("reads")

NextReads == ReadHandler

\* the read handlers called one after the other on one cache
SpecReads == InitReads /\ [][NextReads]_vars

InitCanon == InitWith("canon")

NextCanon ==
  \/ FetchCanonGet
  \/ FetchCanonLoad
  \/ FetchCanonCache
  \/ ChangeCanonWrite
  \/ ChangeCanonInvalidate

\* one canon read and one canon change at a time, interleaved at every await
SpecCanon == InitCanon /\ [][NextCanon]_vars

InitBackend == InitWith("backend")

NextBackend == GetOrSetOnBackend

\* getOrSet calls, one after the other, on a backend that can fail
SpecBackend == InitBackend /\ [][NextBackend]_vars

(***************************************************************************)
(* Vocabulary of the properties                                            *)
(***************************************************************************)
Closing(e) == e.event \in {"done", "error"}

ErrCount(log) == Cardinality({i \in 1..Len(log) : log[i].event = "error"})

ClosingCount(log) == Cardinality({i \in 1..Len(log) : Closing(log[i])})

\* progress-note, insight, artifact and live partial-message events
Progress(e) ==
  \/ e.event \in {"thinking", "analysis", "artifact"}
  \/ e.event = "message" /\ e.type \in {"streaming-start", "streaming"}

Closed(log) == Len(log) > 0 /\ log[Len(log)] = Close

\* the tool round of the current iteration was dispatched and appended
RoundAppended ==
  /\ phase \in {"Requesting", "Finalizing", "Terminal"}
  /\ Len(toolUseBlocks) > 0
  /\ stopReason = "tool_use"
  /\ toolIdx > Len(toolUseBlocks)

LastTurn == conversationContext[Len(conversationContext)]

(***************************************************************************)
(* C1: a run performs at most 5 model-turn iterations: loopCount is never  *)
(* greater than 5, in particular not when the run is Terminal.             *)
(***************************************************************************)
C1_IterationCap == loopCount \in 0..5

C1_Witness == phase = "Terminal" /\ outcome = "completed" /\ loopCount = 5

(***************************************************************************)
(* C2: every run eventually is Terminal with a terminal event written and  *)
(* the stream closed; the phases follow Requesting -> Decoding ->          *)
(* (Dispatching -> Requesting)* -> Finalizing -> Terminal, a failure going *)
(* to Terminal directly; once Terminal, nothing of the run changes.        *)
(***************************************************************************)
PhaseOrder ==
  {<<"GetConversation", "SaveUser">>, <<"SaveUser", "LoadContext">>,
   <<"LoadContext", "Requesting">>, <<"Requesting", "Decoding">>,
   <<"Decoding", "Decoding">>, <<"Decoding", "Dispatching">>,
   <<"Decoding", "Finalizing">>, <<"Dispatching", "Dispatching">>,
   <<"Dispatching", "Requesting">>, <<"Dispatching", "Finalizing">>,
   <<"Finalizing", "Terminal">>}

TerminalReached ==
  /\ phase = "Terminal"
  /\ outcome \in {"completed", "failed"}
  /\ Len(sse) >= 2
  /\ Closed(sse)
  /\ Closing(sse[Len(sse) - 1])

C2_RunTerminates ==
  /\ <>TerminalReached
  /\ [][\/ <<phase, phase'>> \in PhaseOrder
        \/ phase # "Terminal" /\ phase' = "Terminal" /\ outcome' = "failed"]_vars
  /\ [][phase = "Terminal" => UNCHANGED vars]_vars

C2_Witness == TerminalReached /\ outcome = "completed" /\ loopCount >= 2 /\ Len(calls) >= 2

(***************************************************************************)
(* C3: the events of a finished run are progress events followed by        *)
(* exactly one of (final-answer message, done) or (error).                 *)
(***************************************************************************)
C3_EventOrder ==
  phase = "Terminal" =>
    LET body == SubSeq(sse, 1, Len(sse) - 1)
        n == Len(body)
    IN  \/ /\ n >= 2
           /\ body[n] = Done
           /\ body[n - 1].event = "message" /\ body[n - 1].type = "final"
           /\ \A i \in 1..(n - 2) : Progress(body[i])
        \/ /\ n >= 1
           /\ body[n].event = "error"
           /\ \A i \in 1..(n - 1) : Progress(body[i])

(***************************************************************************)
(* C4: exactly one closing event (done or error) per run, and nothing is   *)
(* sent after it or after close().                                         *)
(***************************************************************************)
C4_OneClosingEvent ==
  /\ ClosingCount(sse) <= 1
  /\ phase = "Terminal" => ClosingCount(sse) = 1
  /\ \A i \in 1..Len(sse) :
       /\ Closing(sse[i]) => \A j \in (i + 1)..Len(sse) : sse[j] = Close
       /\ sse[i] = Close => i = Len(sse)

(***************************************************************************)
(* C5: an error event is written only by a step that ends the run (the     *)
(* provider call, its stream or a record-store call failed); no step that  *)
(* dispatches a tool writes one.                                           *)
(***************************************************************************)
C5_ErrorOnlyWhenFatal ==
  [][ErrCount(sse') > ErrCount(sse) =>
       phase # "Dispatching" /\ phase' = "Terminal" /\ outcome' = "failed"]_vars

(***************************************************************************)
(* The increments of the current turn, read by block index                 *)
(***************************************************************************)
RECURSIVE DeltaData(_, _, _)
DeltaData(evs, kind, index) ==
  IF evs = <<>> THEN <<>>
  ELSE LET h == Head(evs)
       IN  (IF h.type = "content_block_delta" /\ h.kind = kind /\ h.index = index
              THEN h.data ELSE <<>>)
             \o DeltaData(Tail(evs), kind, index)

\* the increments that precede the first stop marker of the block
BeforeStop(evs, index) ==
  LET stops == {i \in 1..Len(evs) :
                  evs[i].type = "content_block_stop" /\ evs[i].index = index}
  IN  IF stops = {} THEN evs
      ELSE SubSeq(evs, 1, (CHOOSE i \in stops : \A j \in stops : i <= j) - 1)

OwnFragments(evs, index) == DeltaData(BeforeStop(evs, index), "input_json_delta", index)

ToolStarts(evs) == {i \in Starts(evs) : evs[i].kind = "tool_use"}

Invocations(id) == {k \in 1..Len(toolUseBlocks) : toolUseBlocks[k].id = id}

FailedResults(id) ==
  {k \in 1..Len(toolResults) : toolResults[k].toolCallId = id /\ toolResults[k].isError}

CallsOfLoop(loop) == SelectSeq(calls, LAMBDA c : c.loop = loop)

(***************************************************************************)
(* C6: the text assembled for a text segment is the in-order concatenation *)
(* of the text deltas addressed to that segment.                           *)
(***************************************************************************)
C6_TextAssembly ==
  \A k \in 1..Len(contentBlocks) :
    contentBlocks[k].type = "text" =>
      contentBlocks[k].text = DeltaData(incoming, "text_delta", k - 1)

(***************************************************************************)
(* C7: after a model turn, every tool segment that received argument       *)
(* fragments has exactly one finished invocation with the parsed arguments *)
(* when its segment was closed on valid JSON, and otherwise no invocation  *)
(* and exactly one failed (malformed-tool-arguments) result.               *)
(***************************************************************************)
C7_ToolAssembly ==
  phase \in {"Requesting", "Finalizing"} =>
    \A p \in ToolStarts(incoming) :
      LET id == incoming[p].id
          frags == OwnFragments(incoming, incoming[p].index)
      IN  frags # <<>> =>
            IF Stopped(incoming, incoming[p].index) /\ JSONValid(frags)
              THEN /\ Cardinality(Invocations(id)) = 1
                   /\ \A k \in Invocations(id) : toolUseBlocks[k].input = JSONParse(frags)
              ELSE /\ Invocations(id) = {}
                   /\ Cardinality(FailedResults(id)) = 1

(***************************************************************************)
(* C8: executeTool is only called for an invocation whose own segment was  *)
(* stopped, with the arguments parsed from that segment's own fragments,   *)
(* and a finished invocation never changes while the turn is decoded.      *)
(***************************************************************************)
C8_NoPartialDispatch ==
  /\ [](\A k \in 1..Len(calls) :
          calls[k].loop = loopCount =>
            \E p \in ToolStarts(incoming) :
              /\ incoming[p].id = calls[k].id
              /\ Stopped(incoming, incoming[p].index)
              /\ calls[k].input =
                   JSONParse(OrEmptyObject(OwnFragments(incoming, incoming[p].index))))
  /\ [][phase = "Decoding" /\ phase' = "Decoding" =>
          \A k \in 1..Len(toolUseBlocks) : toolUseBlocks'[k] = toolUseBlocks[k]]_vars

(***************************************************************************)
(* C9: dispatching an unregistered tool name yields one failed result      *)
(* (unknown tool), writes no error event and does not end the run; the     *)
(* round is appended and, no termination condition holding, the model is   *)
(* called again.                                                           *)
(***************************************************************************)
Unregistered(name) == name \notin RegisteredTools

C9_UnknownTool ==
  /\ [](\A k \in 1..Len(calls) :
          Unregistered(calls[k].name) =>
            toolResults[k] = ToolResult(calls[k].id, "Unknown tool", TRUE))
  /\ [][phase = "Dispatching" /\ toolIdx <= Len(toolUseBlocks)
          /\ Unregistered(toolUseBlocks[toolIdx].name) =>
            /\ ErrCount(sse') = ErrCount(sse)
            /\ phase' = "Dispatching"
            /\ outcome' = "running"]_vars
  /\ [][phase = "Dispatching" /\ toolIdx > Len(toolUseBlocks)
          /\ (\A i \in 1..Len(toolUseBlocks) : Unregistered(toolUseBlocks[i].name)) =>
            /\ \A i \in 1..Len(toolUseBlocks) :
                 \E j \in 1..Len(LastTurn'.blocks) :
                   /\ LastTurn'.blocks[j].id = toolUseBlocks[i].id
                   /\ LastTurn'.blocks[j].is_error
            /\ loopCount < 5 => phase' = "Requesting"]_vars

C9_Witness ==
  /\ phase = "Decoding"
  /\ \E k \in 1..Len(calls) : Unregistered(calls[k].name) /\ calls[k].loop < loopCount

(***************************************************************************)
(* C10: the invocations of a round are executed once each, in the order    *)
(* the Decoder finished them, and the tool-result turn appended after the  *)
(* round holds exactly their results, in that order and with their ids.    *)
(***************************************************************************)
AsCall(toolUse, loop) ==
  [id |-> toolUse.id, name |-> toolUse.name, input |-> toolUse.input, loop |-> loop]

C10_RoundResults ==
  /\ \A k \in 1..Len(calls) : calls[k].loop <= loopCount
  /\ phase = "Dispatching" =>
       CallsOfLoop(loopCount) =
         [i \in 1..(toolIdx - 1) |-> AsCall(toolUseBlocks[i], loopCount)]
  /\ RoundAppended =>
       LET n == Len(toolUseBlocks)
           base == Len(toolResults) - n
       IN  /\ CallsOfLoop(loopCount) = [i \in 1..n |-> AsCall(toolUseBlocks[i], loopCount)]
           /\ LastTurn.role = "user"
           /\ ~LastTurn.isString
           /\ Len(LastTurn.blocks) = n
           /\ \A i \in 1..n :
                /\ LastTurn.blocks[i].type = "tool_result"
                /\ LastTurn.blocks[i].id = toolUseBlocks[i].id
                /\ toolResults[base + i].toolCallId = toolUseBlocks[i].id
                /\ LastTurn.blocks[i].is_error = toolResults[base + i].isError

C10_Witness ==
  /\ RoundAppended
  /\ loopCount = 2
  /\ Len(toolResults) > Len(toolUseBlocks)
  /\ Len(CallsOfLoop(1)) = 2

(***************************************************************************)
(* C11: a tool whose handler reports a failure never aborts the run: its   *)
(* result is recorded and appended with is_error = true, the remaining     *)
(* invocations of the round are still executed, and, no termination        *)
(* condition holding, the model is called again with a conversation that   *)
(* holds the failed result.                                                *)
(***************************************************************************)
FailureContents ==
  {"Failed to load", "Failed to generate content", "Failed to validate content",
   "Unknown tool"}

HandlerFailed(k) == toolResults[k].output \in FailureContents

\* some block of some submitted turn is the failed result of invocation id
ShowsFailure(messages, id) ==
  \E m \in 1..Len(messages) : \E j \in 1..Len(messages[m].blocks) :
    /\ messages[m].blocks[j].type = "tool_result"
    /\ messages[m].blocks[j].id = id
    /\ messages[m].blocks[j].is_error

TerminationCondition ==
  \/ Some(toolUseBlocks, "validate_content")
  \/ Some(toolUseBlocks, "content_execution") /\ loopCount >= 2
  \/ loopCount >= 5

C11_FailedToolContinues ==
  /\ [](\A k \in 1..Len(toolResults) : HandlerFailed(k) => toolResults[k].isError)
  /\ [](RoundAppended =>
          \A i \in 1..Len(toolUseBlocks) :
            HandlerFailed(Len(toolResults) - Len(toolUseBlocks) + i) =>
              LastTurn.blocks[i].is_error)
  /\ [][phase = "Dispatching" /\ toolIdx <= Len(toolUseBlocks) =>
          /\ phase' = "Dispatching"
          /\ outcome' = "running"
          /\ toolIdx' = toolIdx + 1
          /\ Len(calls') = Len(calls) + 1]_vars
  /\ [][phase = "Dispatching" /\ toolIdx > Len(toolUseBlocks) =>
          /\ Len(calls) >= Len(toolUseBlocks)
          /\ outcome' = "running"
          /\ ~TerminationCondition => phase' = "Requesting"]_vars
  /\ [](phase = "Decoding" =>
          \A k \in 1..Len(calls) :
            HandlerFailed(k) => ShowsFailure(buildMessages(conversationContext), calls[k].id))

C11_Witness ==
  /\ phase = "Decoding"
  /\ loopCount = 2
  /\ Len(calls) = 2
  /\ HandlerFailed(1)
  /\ toolResults[1].output = "Failed to load"
  /\ ~HandlerFailed(2)

(***************************************************************************)
(* C12: when the provider call or its stream fails, or saving the final    *)
(* assistant message fails, the run is fatal: it goes to Terminal without  *)
(* another model call, no done event is written, and the subscriber has    *)
(* received exactly one error event, the last event before the close.      *)
(***************************************************************************)
FatalStep ==
  /\ phase \in {"Requesting", "Decoding", "Finalizing"}
  /\ outcome' = "failed"

C12_FatalFailure ==
  [][FatalStep =>
       /\ phase' = "Terminal"
       /\ loopCount' \in {loopCount, loopCount + 1}
       /\ \A i \in 1..Len(sse') : sse'[i].event # "done"
       /\ Closed(sse')
       /\ sse'[Len(sse') - 1].event = "error"
       /\ ErrCount(sse') = 1]_vars

(***************************************************************************)
(* C13: the artifact events of the stream form complete lifecycles: every  *)
(* start is followed, after deltas only, by its end, also when the         *)
(* generation fails mid-stream, and no delta or end comes without a start  *)
(* before it.  (A content_execution call writes its events in one step, so *)
(* every state shows finished calls only.)                                 *)
(***************************************************************************)
ArtifactEvents == SelectSeq(sse, LAMBDA e : e.event = "artifact")

C13_ArtifactLifecycle ==
  LET a == ArtifactEvents
  IN  \A i \in 1..Len(a) :
        /\ a[i].type = "start" =>
             \E j \in (i + 1)..Len(a) :
               /\ a[j].type = "end"
               /\ \A k \in (i + 1)..(j - 1) : a[k].type = "delta"
        /\ a[i].type \in {"delta", "end"} =>
             i > 1 /\ a[i - 1].type \in {"start", "delta"}

(***************************************************************************)
(* Vocabulary of the cache properties                                      *)
(***************************************************************************)
\* the step is a cache operation named op
Performs(op) == lastOp'.seq = lastOp.seq + 1 /\ lastOp'.op = op

HasPrefix(key, prefix) ==
  Len(key) >= Len(prefix) /\ SubSeq(key, 1, Len(prefix)) = prefix

(***************************************************************************)
(* C14: a getOrSet call that follows a getOrSet call for the same layer    *)
(* and key while the entry has not expired does not invoke fetchFn and     *)
(* returns what the first call returned, whatever value fetchFn returned.  *)
(***************************************************************************)
C14_CacheIdempotence ==
  [][Performs("getOrSet") /\ lastOp.op = "getOrSet" /\ lastOp'.key = lastOp.key
       /\ Live(store, now, lastOp.key) =>
         /\ ~lastOp'.fetched
         /\ lastOp'.returned = lastOp.returned]_vars

(***************************************************************************)
(* C15: a getOrSet call that finds a live entry returns the stored value   *)
(* without invoking fetchFn and leaves the keyspace as it is; a call that  *)
(* finds none invokes fetchFn, stores the value under the key with the     *)
(* override as time to live whenever one was passed and the layer's        *)
(* default otherwise, and returns the value.                               *)
(***************************************************************************)
C15_HitAndMiss ==
  [][Performs("getOrSet") =>
       LET key == lastOp'.key
           ttl == IF lastOp'.customTTL.given THEN lastOp'.customTTL.value
                                              ELSE getTTL(key[2])
       IN  IF Live(store, now, key)
             THEN /\ ~lastOp'.fetched
                  /\ lastOp'.returned = JSONParseValue(store[key].text)
                  /\ store' = store
             ELSE /\ lastOp'.fetched
                  /\ store' = [store EXCEPT
                                 ![key] = Entry(JSONStringify(lastOp'.returned), now + ttl)]]_vars

C17_Cancellation ==
  [][~connected =>
       /\ phase' = "Terminal"
       /\ sse' = sse
       /\ loopCount' = loopCount
       /\ calls' = calls]_vars

(***************************************************************************)
(* The scenario of C18: the model requests a read tool in its first turn   *)
(* and the generation tool in its second, both succeed, the run completes. *)
(***************************************************************************)
WelcomeEmailScenario ==
  /\ phase = "Terminal"
  /\ outcome = "completed"
  /\ Len(calls) = 2
  /\ calls[1].name = "fetch_canon" /\ calls[1].loop = 1
  /\ calls[2].name = "content_execution" /\ calls[2].loop = 2
  /\ \A k \in 1..2 : ~toolResults[k].isError

\* the kind of an event in the words of the event protocol
Kind(e) ==
  CASE e.event = "thinking" -> "progress-note"
    [] e.event = "analysis" -> "insight"
    [] e.event = "artifact" /\ e.type = "start" -> "artifact-begin"
    [] e.event = "artifact" /\ e.type = "delta" -> "artifact-chunk"
    [] e.event = "artifact" /\ e.type = "end" -> "artifact-end"
    [] e.event = "message" /\ e.type = "final" -> "final-answer"
    [] e.event = "done" -> "completed"
    [] e.event = "error" -> "failure"
    [] OTHER -> "other"

\* the kinds of the events, the live partial-message events and the close
\* left out
Kinds ==
  LET shown == SelectSeq(sse, LAMBDA e : e.event # "close" /\ ~(e.event = "message"
                                                               /\ e.type # "final"))
  IN  [i \in 1..Len(shown) |-> Kind(shown[i])]

Repeat(x, n) == [i \in 1..n |-> x]

(***************************************************************************)
(* C18 as stated: in the scenario the events are progress-notes, one       *)
(* insight, one progress-note, artifact-begin, artifact-chunks,            *)
(* artifact-end, final-answer, completed, with nothing between the         *)
(* progress-note and artifact-begin nor between artifact-end and           *)
(* final-answer; loopCount is 2.                                           *)
(***************************************************************************)
C18_ScenarioAsStated ==
  WelcomeEmailScenario =>
    /\ loopCount = 2
    /\ \E n \in 0..Len(Kinds), m \in 0..MaxChunks :
         Kinds = Repeat("progress-note", n)
                   \o <<"insight", "progress-note", "artifact-begin">>
                   \o Repeat("artifact-chunk", m)
                   \o <<"artifact-end", "final-answer", "completed">>

(***************************************************************************)
(* C18, amended: in the scenario the events are progress-notes, the        *)
(* insight of the read tool, two progress-notes, an insight that           *)
(* generation starts, artifact-begin, one artifact-chunk per text delta of *)
(* the generation, artifact-end, an insight, a progress-note and a second  *)
(* insight that content was generated, final-answer, completed; loopCount  *)
(* is 2.                                                                   *)
(***************************************************************************)
C18_Scenario ==
  WelcomeEmailScenario =>
    /\ loopCount = 2
    /\ Kinds = Repeat("progress-note", 7)
                 \o <<"insight", "progress-note", "progress-note", "insight",
                      "artifact-begin">>
                 \o Repeat("artifact-chunk", Len(artifacts[1].content))
                 \o <<"artifact-end", "insight", "progress-note", "insight",
                      "final-answer", "completed">>

C18_Witness ==
  /\ WelcomeEmailScenario
  /\ Len(artifacts) = 1
  /\ Len(artifacts[1].content) = MaxChunks

(***************************************************************************)
(* C19: the tools of a model turn are dispatched if and only if the turn   *)
(* ended with stop reason tool_use and the Decoder finished at least one   *)
(* invocation.  Then the assistant turn with the content blocks of the     *)
(* turn, the tool_use block of every finished invocation among them, is    *)
(* appended right before the tool-result turn.  Otherwise no tool is       *)
(* called, no further model turn is requested and the run finalizes.       *)
(***************************************************************************)
TurnRequestsTools == stopReason = "tool_use" /\ Len(toolUseBlocks) >= 1

C19_DispatchCondition ==
  /\ [][phase = "Decoding" /\ phase' \notin {"Decoding", "Terminal"} =>
          IF TurnRequestsTools THEN phase' = "Dispatching"
                               ELSE phase' = "Finalizing" /\ calls' = calls]_vars
  /\ [][Len(calls') > Len(calls) => TurnRequestsTools /\ phase = "Dispatching"]_vars
  /\ [](phase \in {"Finalizing", "Terminal"} /\ ~TurnRequestsTools =>
          CallsOfLoop(loopCount) = <<>>)
  /\ [][phase = "Finalizing" => phase' = "Terminal" /\ loopCount' = loopCount]_vars
  /\ [][phase = "Dispatching" /\ phase' # "Dispatching" =>
          LET n == Len(conversationContext')
              assistant == conversationContext'[n - 1]
          IN  /\ n = Len(conversationContext) + 2
              /\ SubSeq(conversationContext', 1, n - 2) = conversationContext
              /\ assistant = BlocksTurn("assistant", contentBlocks)
              /\ \A i \in 1..Len(toolUseBlocks) :
                   \E j \in 1..Len(assistant.blocks) :
                     /\ assistant.blocks[j].type = "tool_use"
                     /\ assistant.blocks[j].id = toolUseBlocks[i].id
              /\ conversationContext'[n].role = "user"
              /\ \A j \in 1..Len(conversationContext'[n].blocks) :
                   conversationContext'[n].blocks[j].type = "tool_result"]_vars

C19_Witness ==
  /\ phase = "Finalizing"
  /\ Len(toolUseBlocks) >= 1
  /\ stopReason = "max_tokens"
  /\ Len(contentBlocks) = 2
  /\ calls = <<>>

(***************************************************************************)
(* C20: when the loop ends by the cap of 5 iterations while the model was  *)
(* still requesting tools, the final answer (state.response) is not the    *)
(* initial empty value if the model produced text in its last turn.        *)
(***************************************************************************)
StoppedByCap == phase = "Finalizing" /\ continueLoop /\ loopCount = maxLoops

C20_CapAnswer == StoppedByCap /\ fullResponse # <<>> => response # <<>>

(***************************************************************************)
(* C21: once content_execution has been dispatched in some round and the   *)
(* second iteration is over, at most one more round of tools is            *)
(* dispatched: the rounds after iteration 2 that follow a round with       *)
(* content_execution are at most one.                                      *)
(***************************************************************************)
RoundsAfter(loop) == {calls[j].loop : j \in {i \in 1..Len(calls) : calls[i].loop > loop}}

C21_OneMoreRound ==
  \A k \in 1..Len(calls) :
    calls[k].name = "content_execution" =>
      Cardinality(RoundsAfter(IF calls[k].loop > 2 THEN calls[k].loop ELSE 2)) <= 1

(***************************************************************************)
(* C22: after a model turn, a tool segment that was stopped and whose own  *)
(* argument fragments do not parse is never passed to executeTool, and the *)
(* conversation holds a failed tool-result (is_error) with its id.         *)
(***************************************************************************)
Malformed(evs, p) ==
  LET frags == OwnFragments(evs, evs[p].index)
  IN  Stopped(evs, evs[p].index) /\ frags # <<>> /\ ~JSONValid(frags)

C22_MalformedResult ==
  phase \in {"Requesting", "Finalizing"} =>
    \A p \in ToolStarts(incoming) :
      Malformed(incoming, p) =>
        /\ \A k \in 1..Len(calls) : calls[k].id # incoming[p].id
        /\ ShowsFailure(conversationContext, incoming[p].id)

(***************************************************************************)
(* C23: when the stream of a turn ended and a tool segment never got its   *)
(* stop marker, the turn has no invocation for that segment, executeTool   *)
(* is not called for it, one failed (malformed-tool-arguments) result with *)
(* its id exists, and the run has not failed.                              *)
(***************************************************************************)
C23_OpenBufferAtEnd ==
  phase \in {"Requesting", "Finalizing"} =>
    \A p \in ToolStarts(incoming) :
      ~Stopped(incoming, incoming[p].index) =>
        /\ Invocations(incoming[p].id) = {}
        /\ \A k \in 1..Len(calls) : calls[k].id # incoming[p].id
        /\ \/ Cardinality(FailedResults(incoming[p].id)) = 1
           \/ ShowsFailure(conversationContext, incoming[p].id)
        /\ outcome = "running"

(***************************************************************************)
(* C24: in the messages sent to the model, every tool-result turn follows  *)
(* an assistant turn and references only tool_use ids of that turn, and    *)
(* every tool_use block of an assistant turn is answered by exactly one    *)
(* tool_result with its id in the turn that follows.                       *)
(***************************************************************************)
BlocksOf(turn, type) == {j \in 1..Len(turn.blocks) : turn.blocks[j].type = type}

Paired(messages) ==
  \A m \in 1..Len(messages) :
    /\ BlocksOf(messages[m], "tool_result") # {} =>
         /\ m > 1
         /\ messages[m - 1].role = "assistant"
         /\ \A j \in BlocksOf(messages[m], "tool_result") :
              \E i \in BlocksOf(messages[m - 1], "tool_use") :
                messages[m - 1].blocks[i].id = messages[m].blocks[j].id
    /\ \A i \in BlocksOf(messages[m], "tool_use") :
         /\ m < Len(messages)
         /\ Cardinality({j \in BlocksOf(messages[m + 1], "tool_result") :
                           messages[m + 1].blocks[j].id = messages[m].blocks[i].id}) = 1

C24_ResultsPairInvocations ==
  phase = "Decoding" => Paired(buildMessages(conversationContext))

(***************************************************************************)
(* C25: a text delta addressed to a text segment that is not open (its     *)
(* stop marker has arrived, or it was never started) changes no content    *)
(* block and not the assembled text of the turn, and nothing is written to *)
(* the stream for it.                                                      *)
(***************************************************************************)
OpenText(evs, index) ==
  /\ \E i \in Starts(evs) : evs[i].index = index /\ evs[i].kind = "text"
  /\ ~Stopped(evs, index)

Arrives(type, kind) ==
  /\ phase = "Decoding"
  /\ Len(incoming') = Len(incoming) + 1
  /\ incoming'[Len(incoming')].type = type
  /\ incoming'[Len(incoming')].kind = kind

C25_LateTextIgnored ==
  [][Arrives("content_block_delta", "text_delta")
       /\ ~OpenText(incoming, incoming'[Len(incoming')].index) =>
         /\ contentBlocks' = contentBlocks
         /\ fullResponse' = fullResponse
         /\ sse' = sse]_vars

(***************************************************************************)
(* C26: while a turn is decoded, every text delta is written to the stream *)
(* as one partial-message event carrying that delta, at the step that      *)
(* appends it; no other increment writes model output: a block start       *)
(* writes events without content, an argument fragment, a stop marker and  *)
(* the stop reason write nothing.  The chunks streamed during the first    *)
(* turn, concatenated in order, are the assembled text of the turn.        *)
(***************************************************************************)
RECURSIVE Concat(_)
Concat(chunks) == IF chunks = <<>> THEN <<>> ELSE Head(chunks) \o Concat(Tail(chunks))

Streamed(log) ==
  LET live == SelectSeq(log, LAMBDA e : e.event = "message" /\ e.type = "streaming")
  IN  Concat([i \in 1..Len(live) |-> live[i].content])

FinalMessage == sse[Len(sse) - 2]

C27_AnswerIsAllText ==
  phase = "Terminal" /\ outcome = "completed" =>
    /\ response = Streamed(sse)
    /\ FinalMessage = Message(Streamed(sse), "final")

(***************************************************************************)
(* C27, amended: when the run finalizes because the last model turn        *)
(* requested no tools, the final answer is the text accumulated in that    *)
(* last turn only, and the final-answer message of a completed run carries *)
(* state.response.                                                         *)
(***************************************************************************)
C27_AnswerIsLastTurn ==
  /\ phase = "Finalizing" /\ ~TurnRequestsTools => response = fullResponse
  /\ phase = "Terminal" /\ outcome = "completed" =>
       FinalMessage = Message(response, "final")

C27_Witness ==
  /\ phase = "Terminal"
  /\ outcome = "completed"
  /\ ~TurnRequestsTools
  /\ loopCount = 2
  /\ Streamed(sse) = <<"a", "a">>
  /\ response = <<"a">>

(***************************************************************************)
(* C28: in the messages sent to the model, the result of an invocation     *)
(* whose handler reported an error is marked is_error and carries the      *)
(* handler's error detail, and the result of a read tool whose external    *)
(* lookup failed is marked is_error.                                       *)
(***************************************************************************)
ReadTools == {"fetch_canon", "knowledge_search", "web_search"}

ResultShown(messages, id) ==
  LET m == CHOOSE m \in 1..Len(messages) :
             \E j \in BlocksOf(messages[m], "tool_result") : messages[m].blocks[j].id = id
      j == CHOOSE j \in BlocksOf(messages[m], "tool_result") : messages[m].blocks[j].id = id
  IN  messages[m].blocks[j]

C28_ErrorDetailPreserved ==
  phase = "Decoding" =>
    \A k \in 1..Len(calls) :
      LET reported == executeTool(calls[k].name, envs[k])
          shown == ResultShown(buildMessages(conversationContext), calls[k].id)
      IN  /\ ~reported.success => shown.is_error /\ shown.output = reported.error
          /\ calls[k].name \in ReadTools /\ envs[k].kind = "throw" => shown.is_error

(***************************************************************************)
(* C29: when getOrSet calls for one (layer, key) interleave, every call    *)
(* that fetched returns the value it computed, a live entry holds exactly  *)
(* the text of the value of the last set on its key, and a call that finds *)
(* a live entry is served from it without a fetch.                         *)
(***************************************************************************)
Missed(call) == call.pc \in {"fetch", "set"} \/ (call.pc = "done" /\ call.fetched)

ReturnsComputed ==
  \A c \in Callers :
    inFlight[c].pc = "done" /\ inFlight[c].fetched => inFlight[c].returned = inFlight[c].value

LastWriterWins ==
  \A k \in AllKeys :
    Live(store, now, k) => lastWrite[k].written /\ store[k].text = JSONStringify(lastWrite[k].value)

LiveEntryHits == \A c \in Callers : Missed(inFlight[c]) => ~inFlight[c].sawEntry

C29_ConcurrentMisses == ReturnsComputed /\ LastWriterWins /\ LiveEntryHits

(***************************************************************************)
(* C30: within one conversation the stored turns have pairwise distinct    *)
(* ordinals that increase strictly in the order the turns were stored,     *)
(* whatever the interleaving of the create calls.                          *)
(***************************************************************************)
C30_StrictOrdinals ==
  \A i, j \in 1..Len(rows) :
    i < j /\ rows[i].conversation_id = rows[j].conversation_id
      => rows[i].message_order < rows[j].message_order

(***************************************************************************)
(* C31: a read handler calls its collaborator at most once; a call that    *)
(* repeats an earlier call of the same tool and key whose value was        *)
(* obtained is served from the cache without calling the collaborator.     *)
(***************************************************************************)
Obtained(r) == r.success /\ (r.providerCalls = 0 \/ r.provider = "ok")

Repeats(i) ==
  \E j \in 1..(i - 1) :
    reads[j].name = reads[i].name /\ reads[j].key = reads[i].key /\ Obtained(reads[j])

C31_CacheFirst ==
  \A i \in 1..Len(reads) :
    /\ reads[i].providerCalls <= 1
    /\ Repeats(i) => reads[i].providerCalls = 0 /\ reads[i].success
    /\ ~Repeats(i) => reads[i].providerCalls = 1

(***************************************************************************)
(* C39: a web search whose provider failed leaves the cache as it was: the *)
(* next web search of the same key calls the provider again, and every     *)
(* cached web-search entry is a response the provider returned.            *)
(***************************************************************************)
FailedSearch(r) == r.name = "web_search" /\ r.providerCalls = 1 /\ r.provider = "throw"

NextSearch(i, j) ==
  /\ i < j
  /\ reads[j].name = "web_search"
  /\ reads[j].key = reads[i].key
  /\ \A m \in (i + 1)..(j - 1) : ~(reads[m].name = "web_search" /\ reads[m].key = reads[i].key)

ProviderReturned(key) ==
  {reads[i].offered : i \in {m \in 1..Len(reads) :
      reads[m].name = "web_search" /\ reads[m].key = key /\ reads[m].provider = "ok"}}

C39_FailureNotCached ==
  /\ \A i, j \in 1..Len(reads) :
       FailedSearch(reads[i]) /\ NextSearch(i, j) => reads[j].providerCalls = 1
  /\ \A key \in CallerKeys :
       Live(store, now, buildKey("http", key))
         => JSONParseValue(store[buildKey("http", key)].text) \in ProviderReturned(key)

C39_Witness ==
  \E i, j \in 1..Len(reads) :
    /\ FailedSearch(reads[i])
    /\ NextSearch(i, j)
    /\ reads[j].provider = "ok"
    /\ Live(store, now, buildKey("http", reads[j].key))

(***************************************************************************)
(* C32: the status validate_content reports is failed exactly when the     *)
(* rule loop found an issue, warning exactly when it found no issue but a  *)
(* warning, and passed otherwise, so always for an empty rule set; its     *)
(* result is a success whatever the status, the call sends no error event, *)
(* creates nothing and fails nothing, and no model turn follows it.        *)
(***************************************************************************)
Validations == {k \in 1..Len(calls) : calls[k].name = "validate_content" /\ envs[k].kind = "checked"}

ResultOf(id) == toolResults[CHOOSE i \in 1..Len(toolResults) : toolResults[i].toolCallId = id]

StatusFollowsFindings ==
  \A k \in Validations :
    LET status == ResultOf(calls[k].id).output
        found == envs[k]
    IN  /\ status \in {"passed", "warning", "failed"}
        /\ status = "failed" <=> found.hasIssues
        /\ status = "warning" <=> ~found.hasIssues /\ found.hasWarnings
        /\ ~found.hasRules => status = "passed"
        /\ ~ResultOf(calls[k].id).isError
        /\ loopCount = calls[k].loop

ValidationStep ==
  /\ phase = "Dispatching"
  /\ toolIdx <= Len(toolUseBlocks)
  /\ toolIdx' = toolIdx + 1
  /\ toolUseBlocks[toolIdx].name = "validate_content"
  /\ envs'[Len(envs')].kind = "checked"

C32_ValidationStatus ==
  /\ []StatusFollowsFindings
  /\ [][ValidationStep =>
          /\ \A i \in (Len(sse) + 1)..Len(sse') :
               sse'[i].event # "error" /\ sse'[i] # Thinking("failed")
          /\ artifacts' = artifacts
          /\ outcome' = outcome]_vars

C32_Witness ==
  /\ phase = "Terminal"
  /\ outcome = "completed"
  /\ \E k \in Validations :
       /\ envs[k].hasIssues
       /\ envs[k].hasWarnings
       /\ ResultOf(calls[k].id).output = "failed"

(***************************************************************************)
(* C33: once a dispatch result carries an unrecoverable error (the tool is *)
(* not registered, or the content type is not supported: errors no retry   *)
(* can cure), no further invocation is executed and no further model turn  *)
(* is requested.                                                           *)
(***************************************************************************)
Unrecoverable(k) ==
  /\ ~executeTool(calls[k].name, envs[k]).success
  /\ \/ calls[k].name \notin RegisteredTools
     \/ calls[k].name = "content_execution" /\ envs[k].kind = "bad_type"

IsCurrentUserMessage(turn) ==
  turn.role = "user" /\ turn.isString /\ turn.text = UserMessage

C34_UserMessageOnce ==
  phase = "Decoding" =>
    LET messages == buildMessages(conversationContext)
        at == {i \in 1..Len(messages) : IsCurrentUserMessage(messages[i])}
    IN  /\ Cardinality(at) = 1
        /\ \A i \in at, j \in 1..Len(messages) : ~IsCurrentUserMessage(messages[j]) => i < j

(***************************************************************************)
(* C35: a content_execution result is a success exactly when the artifact  *)
(* was streamed from start to end and its record was created; a failed     *)
(* execution leaves no record; every artifact whose end the subscriber     *)
(* received has its record, with the streamed content.                     *)
(***************************************************************************)
Has(events, type) == \E i \in 1..Len(events) : events[i] = Artifact(type, <<>>)

EndsReceived == Len(SelectSeq(sse, LAMBDA e : e = Artifact("end", <<>>)))

C35_SuccessIffSaved ==
  /\ \A k \in 1..Len(calls) :
       calls[k].name = "content_execution" =>
         LET result == executeTool(calls[k].name, envs[k])
             streamed == Has(result.events, "start") /\ Has(result.events, "end")
         IN  /\ result.success <=> streamed /\ result.created # <<>>
             /\ ~result.success => result.created = <<>>
             /\ Has(result.events, "end") => result.created = <<[content |-> envs[k].chunks]>>
  /\ EndsReceived = Len(artifacts)

(***************************************************************************)
(* C36: after a dispatched round that contains validate_content the loop   *)
(* is over whatever the iteration counter: no model turn is requested, the *)
(* answer is the text of that turn or, when it is empty, the fallback      *)
(* text, so it is never empty, and a completed run sends that answer.      *)
(***************************************************************************)
ValidatedRound == RoundAppended /\ Some(toolUseBlocks, "validate_content")

C36_ValidationStopsLoop ==
  ValidatedRound =>
    /\ phase \in {"Finalizing", "Terminal"}
    /\ ~continueLoop
    /\ response = (IF fullResponse = <<>> THEN Fallback ELSE fullResponse)
    /\ response # <<>>
    /\ phase = "Terminal" /\ outcome = "completed" => FinalMessage = Message(response, "final")

C36_Witness ==
  /\ ValidatedRound
  /\ phase = "Terminal"
  /\ outcome = "completed"
  /\ loopCount = 1
  /\ fullResponse = <<>>
  /\ FinalMessage = Message(Fallback, "final")

(***************************************************************************)
(* C37: whenever no canon change is in flight, every cached canon entry of *)
(* a profile was computed from the profile's current canon items: no entry *)
(* computed from the data before a change survives the change.             *)
(***************************************************************************)
C37_NoStaleCanon ==
  canonCalls.changePc = "idle" =>
    \A p \in ProfileIds, c \in ContentTypes :
      Live(store, now, canonKey(p, c))
        => getCanon(store, now, p, c) = CanonLoadResult(canonDb[p])

(***************************************************************************)
(* C38: a getOrSet call fails only when its compute function throws.  When *)
(* the backend read fails the call computes; when the compute function     *)
(* answers the call returns the computed value, also when the backend      *)
(* write fails; when the compute function throws, the call throws and the  *)
(* entry of the key is as it was.                                          *)
(***************************************************************************)
C38_BackendFailureTolerated ==
  lastCall.seq > 0 =>
    /\ ~lastCall.readOk => lastCall.fetched
    /\ lastCall.threw <=> lastCall.fetched /\ lastCall.compute.kind = "throw"
    /\ lastCall.fetched /\ lastCall.compute.kind = "ok"
         => lastCall.returned = lastCall.compute.value
    /\ lastCall.fetched /\ (lastCall.compute.kind = "throw" \/ ~lastCall.writeOk)
         => store[lastCall.key] = lastCall.before

C38_Witness ==
  /\ lastCall.seq > 0
  /\ ~lastCall.readOk
  /\ ~lastCall.writeOk
  /\ lastCall.before.present
  /\ lastCall.compute = Answers(JsArray(<<"c">>))
  /\ lastCall.returned = JsArray(<<"c">>)
  /\ ~lastCall.threw

====
